---- MODULE Spec2Model ----
(***************************************************************************)
(* A model of the wg-knot relay engine: the PeerManager association table  *)
(* (packet_sender.go), the packet handler a worker runs for every received *)
(* datagram, and the expiration sweeper.                                   *)
(*                                                                         *)
(* Every function of PeerManager that takes the table mutex and does no    *)
(* I/O inside it is one atomic action (Lock .. deferred Unlock).           *)
(* ForwardPacketToReceiver calls the packet sender while it still holds    *)
(* the mutex, so it is two actions with the mutex held in between.         *)
(***************************************************************************)
EXTENDS Integers, Sequences, FiniteSets, TLC

\* ------------------------------------------------------------------ bounds

\* The clock runs from 0 to MaxTime.
MaxTime == 2
\* The configured peer_expiration of the runs that sweep, in clock ticks.
ExpirationTicks == 2
\* The sweeper's CleanupPeers calls are counted up to MaxSweeps.
MaxSweeps == 2
\* The capacity NewWorkerPool gives the queue is computed for up to MaxWorkerCount
\* workers.
MaxWorkerCount == 4
\* The configured keypairs lists of the startup runs have 1 to MaxPairs pairs.
MaxPairs == 3

\* ------------------------------------------------------- program constants

MessageTypeInitiation == 1
MessageTypeResponse == 2
MessageTypeCookieReply == 3
MessageTypeTransport == 4
InitiationLen == 148
ResponseLen == 92
CookieReplyLen == 64
TransportMinLen == 32

\* ------------------------------------------------------------ input sets

Workers == {"w1"}

PublicKeys == {"pkA", "pkB", "pkC"}

Sids == {"11223344", "55667788"}

Addrs == {[ip |-> "10.0.0.1", port |-> 1111], [ip |-> "1.2.3.4", port |-> 5000]}

None == "none"

\* The configured keypairs lists the model starts from.
PairLists ==
    { << [PublicKey1 |-> "pkA", PublicKey2 |-> "pkB"] >>,
      << [PublicKey1 |-> "pkA", PublicKey2 |-> "pkB"],
         [PublicKey1 |-> "pkB", PublicKey2 |-> "pkA"] >>,
      << [PublicKey1 |-> "pkA", PublicKey2 |-> "pkB"],
         [PublicKey1 |-> "pkA", PublicKey2 |-> "pkC"] >> }

\* The keypairs lists NewPeerManager is run on: every list of 1 to MaxPairs pairs
\* of keys, pairs of one key included.
StartupLists ==
    UNION {[1..n -> [PublicKey1 : PublicKeys, PublicKey2 : PublicKeys]] : n \in 1..MaxPairs}

\* The configured peer_expiration values the model starts from.
Expirations == {0, ExpirationTicks}

\* The pool_size main runs with where the pool is not what is looked at (scaled
\* down from the configuration's default), and the pool sizes looked at.
DefaultPoolSize == 1

PoolSizes == {0, 1, 2}

\* ------------------------------------------------------------------ maps

\* A Go map is a function whose domain is the set of its keys.
EmptyMap == [k \in {} |-> None]

MapSet(m, k, v) == [x \in (DOMAIN m) \cup {k} |-> IF x = k THEN v ELSE m[x]]

MapDelete(m, k) == [x \in (DOMAIN m) \ {k} |-> m[x]]

\* m[key] of a map of slices: the nil slice when the key is missing.
MapGetSlice(m, k) == IF k \in DOMAIN m THEN m[k] ELSE << >>

SeqRange(s) == {s[i] : i \in 1..Len(s)}

\* ---------------------------------------------------------------- packets

\* A datagram is modelled by the bytes the relay reads: its length, byte 0,
\* bytes [4:8], bytes [8:12] and bytes [len-32:len-16] (MAC1).  typ, f4, f8 and
\* mac1 of a datagram too short to hold them are padding.

\* Sixteen zero bytes where MAC1 should be: the MAC of no key over no data.
ZeroMac == << << "mac1----", "none" >>, << 0, 0, "00000000", "00000000" >> >>

\* blake2s.New256(nil) over the label and the key: one Mac1Key per public key.
CalculateMac1Key(publicKey) == << "mac1----", publicKey >>

\* payload[:startMac1Pos]: the bytes MAC1 covers.
MacData(p) == << p.len, p.typ, p.f4, p.f8 >>

\* blake2s.New128(mac1Key) over payload[:startMac1Pos].
Blake2s128(mac1Key, p) == << mac1Key, MacData(p) >>

RawPayload(len, typ, f4, f8) == [len |-> len, typ |-> typ, f4 |-> f4, f8 |-> f8, mac1 |-> ZeroMac]

\* A datagram whose MAC1 was computed by a peer that knows publicKey.
SignedPayload(len, typ, f4, f8, publicKey) ==
    LET p == RawPayload(len, typ, f4, f8)
    IN  [p EXCEPT !.mac1 = Blake2s128(CalculateMac1Key(publicKey), p)]

\* A datagram that carries the MAC1 of another datagram (other is signed).
ReplayedMac(p, other) == [p EXCEPT !.mac1 = other.mac1]

Sid1 == "11223344"
Sid2 == "55667788"

GatePayloads ==
    { RawPayload(0, 0, Sid1, Sid1),
      RawPayload(4, 0, Sid1, Sid1),
      RawPayload(InitiationLen, 5, Sid1, Sid1),
      RawPayload(101, MessageTypeInitiation, Sid1, Sid1),
      RawPayload(InitiationLen, MessageTypeResponse, Sid1, Sid1),
      RawPayload(ResponseLen, MessageTypeCookieReply, Sid1, Sid1),
      RawPayload(TransportMinLen - 1, MessageTypeTransport, Sid1, Sid1) }

HandshakePayloads ==
    { SignedPayload(InitiationLen, MessageTypeInitiation, s, Sid1, k) : s \in Sids, k \in PublicKeys }
    \cup { RawPayload(InitiationLen, MessageTypeInitiation, s, Sid1) : s \in {Sid1} }
    \cup { ReplayedMac(RawPayload(InitiationLen, MessageTypeInitiation, Sid2, Sid1),
                       SignedPayload(InitiationLen, MessageTypeInitiation, Sid1, Sid1, "pkA")) }
    \cup { SignedPayload(ResponseLen, MessageTypeResponse, s, r, "pkA") : s \in Sids, r \in Sids }
    \cup { SignedPayload(ResponseLen, MessageTypeResponse, Sid2, Sid1, "pkC"),
           RawPayload(ResponseLen, MessageTypeResponse, Sid2, Sid1) }

DataPayloads ==
    { RawPayload(CookieReplyLen, MessageTypeCookieReply, r, Sid1) : r \in Sids }
    \cup { RawPayload(TransportMinLen, MessageTypeTransport, r, Sid1) : r \in Sids }
    \cup { RawPayload(InitiationLen, MessageTypeTransport, Sid1, Sid1) }

Payloads == GatePayloads \cup HandshakePayloads \cup DataPayloads

\* The jobs a worker may find in the queue.
PacketJobs == [Addr : Addrs, Data : Payloads]

\* The handshake packets that authenticate: the packets that write the table.
TablePayloads ==
    { SignedPayload(InitiationLen, MessageTypeInitiation, s, Sid1, k) : s \in Sids, k \in PublicKeys }
    \cup { SignedPayload(ResponseLen, MessageTypeResponse, s, r, "pkA") : s \in Sids, r \in Sids }

TableJobs == [Addr : Addrs, Data : TablePayloads]

\* The configured worker counts of the runs of the worker pool: all start the
\* one worker of Workers.
WorkerCounts == {-1, 0, 1}

\* The datagrams the receive loop reads in the runs of the worker pool.
PoolJobs ==
    { [Addr |-> [ip |-> "10.0.0.1", port |-> 1111],
       Data |-> SignedPayload(InitiationLen, MessageTypeInitiation, Sid1, Sid1, "pkA")],
      [Addr |-> [ip |-> "1.2.3.4", port |-> 5000],
       Data |-> SignedPayload(InitiationLen, MessageTypeInitiation, Sid2, Sid1, "pkB")],
      [Addr |-> [ip |-> "1.2.3.4", port |-> 5000],
       Data |-> SignedPayload(ResponseLen, MessageTypeResponse, Sid2, Sid1, "pkA")],
      [Addr |-> [ip |-> "10.0.0.1", port |-> 1111],
       Data |-> RawPayload(TransportMinLen, MessageTypeTransport, Sid2, Sid1)],
      [Addr |-> [ip |-> "10.0.0.1", port |-> 1111],
       Data |-> RawPayload(TransportMinLen - 1, MessageTypeTransport, Sid1, Sid1)] }

\* ------------------------------------------------------------------ state

VARIABLES
    ReceiverToPeerMap,            \* map[ReceiverID]*Peer
    PublicKeyToPeersMap,          \* map[PublicKey][]*Peer
    PublicKeyToMac1KeyMap,        \* map[PublicKey]Mac1Key
    PublicKeyToPairPublicKeysMap, \* map[PublicKey][]PublicKey
    peerHeap,                     \* the Peer records the pointers refer to
    peerExpiration,               \* PeerManager.peerExpiration
    mutex,                        \* the holder of PeerManager's mutex, or None
    now,                          \* time.Now()
    ctxDone,                      \* the cancellation signal (ctx.Err() != nil)
    pc,                           \* where each worker is in HandlePacket
    job,                          \* the PacketJob each worker handles (or handled last)
    local,                        \* the handler's local variables
    result,                       \* the error HandlePacket returned last
    sent,                         \* the SendPacket calls of the current handling
    initiated,                    \* history: per sender index, the last handled Initiation
    keypairs,                     \* NewPeerManager's loop: publicKeyPairList and its position
    sweeper,                      \* the sweeper goroutine: its position, its CleanupPeers calls
    wp,                           \* the WorkerPool: jobQueue, whether it is closed, wg
    recv,                         \* the receive loop of main: its position and the job it read
    locking,                      \* per goroutine: the table operation it is in and where
    bp                            \* the BufferPool and the buffer the receive loop holds

tables == << ReceiverToPeerMap, PublicKeyToPeersMap, peerHeap >>
admitted == << PublicKeyToMac1KeyMap, PublicKeyToPairPublicKeysMap, keypairs >>
workerVars == << pc, job, local, result, sent >>
pool == << wp, recv >>
vars == << ReceiverToPeerMap, PublicKeyToPeersMap, PublicKeyToMac1KeyMap,
           PublicKeyToPairPublicKeysMap, peerHeap, peerExpiration, mutex, now,
           ctxDone, pc, job, local, result, sent, initiated, keypairs, sweeper, wp, recv,
           locking, bp >>

\* ------------------------------------------------------------- error kinds

Nil == "nil"
InvalidPacket == "InvalidPacket"
AuthenticationFailed == "AuthenticationFailed"
PeerNotFound == "PeerNotFound"
PacketSendFailed == "PacketSendFailed"
Canceled == "context canceled"
InvalidExpiration == "invalid peer expiration duration"

\* --------------------------------------------------- PeerManager, as functions

\* a.Addr.String(): the address in its "ip:port" form.
AddrString(a) == << a.ip, a.port >>

\* AppendUniqueValue without the scan for an equal value.
AppendValue(m, key, value, equal) == MapSet(m, key, Append(MapGetSlice(m, key), value))

\* equal is given as the set of the pairs << a, b >> with equal(a, b).
AppendUniqueValue(m, key, value, equal) ==
    LET cur == MapGetSlice(m, key)
    IN  IF \E i \in 1..Len(cur) : << cur[i], value >> \in equal
        THEN m
        ELSE MapSet(m, key, Append(cur, value))

\* AddPublicKeyPair storing the MAC1 key of publicKey1 only.
AddPublicKeyPairFirstKeyOnly(adm, publicKey1, publicKey2) ==
    LET isEqual == {<< a, a >> : a \in {publicKey1, publicKey2}}
        mac1 == MapSet(adm.Mac1, publicKey1, CalculateMac1Key(publicKey1))
        pairs1 == AppendUniqueValue(adm.Pairs, publicKey1, publicKey2, isEqual)
        pairs2 == AppendUniqueValue(pairs1, publicKey2, publicKey1, isEqual)
    IN  [Mac1 |-> mac1, Pairs |-> pairs2]

\* The admitted identities after one AddPublicKeyPair call.
AddPublicKeyPair(adm, publicKey1, publicKey2) ==
    LET isEqual == {<< a, a >> : a \in {publicKey1, publicKey2}}
        mac1 == MapSet(MapSet(adm.Mac1, publicKey1, CalculateMac1Key(publicKey1)),
                       publicKey2, CalculateMac1Key(publicKey2))
        pairs1 == AppendUniqueValue(adm.Pairs, publicKey1, publicKey2, isEqual)
        pairs2 == AppendUniqueValue(pairs1, publicKey2, publicKey1, isEqual)
    IN  [Mac1 |-> mac1, Pairs |-> pairs2]

RECURSIVE AddPublicKeyPairs(_, _)
AddPublicKeyPairs(adm, publicKeyPairList) ==
    IF publicKeyPairList = << >>
    THEN adm
    ELSE AddPublicKeyPairs(
             AddPublicKeyPair(adm, Head(publicKeyPairList).PublicKey1,
                              Head(publicKeyPairList).PublicKey2),
             Tail(publicKeyPairList))

\* The admitted identities NewPeerManager builds from the configured list.
NewPeerManager(publicKeyPairList) ==
    AddPublicKeyPairs([Mac1 |-> EmptyMap, Pairs |-> EmptyMap], publicKeyPairList)

\* The gate with the Transport Data bound off by one (len <= 32 rejected).
HandlePacketGateOffByOne(payload) ==
    IF payload.len < 1 THEN InvalidPacket
    ELSE CASE payload.typ = MessageTypeInitiation ->
                 IF payload.len # InitiationLen THEN InvalidPacket ELSE Nil
           [] payload.typ = MessageTypeResponse ->
                 IF payload.len # ResponseLen THEN InvalidPacket ELSE Nil
           [] payload.typ = MessageTypeCookieReply ->
                 IF payload.len # CookieReplyLen THEN InvalidPacket ELSE Nil
           [] payload.typ = MessageTypeTransport ->
                 IF payload.len <= TransportMinLen THEN InvalidPacket ELSE Nil
           [] OTHER -> InvalidPacket

\* The type and length gate of HandlePacket: the error it returns, or Nil.
HandlePacketGate(payload) ==
    IF payload.len < 1 THEN InvalidPacket
    ELSE CASE payload.typ = MessageTypeInitiation ->
                 IF payload.len # InitiationLen THEN InvalidPacket ELSE Nil
           [] payload.typ = MessageTypeResponse ->
                 IF payload.len # ResponseLen THEN InvalidPacket ELSE Nil
           [] payload.typ = MessageTypeCookieReply ->
                 IF payload.len # CookieReplyLen THEN InvalidPacket ELSE Nil
           [] payload.typ = MessageTypeTransport ->
                 IF payload.len < TransportMinLen THEN InvalidPacket ELSE Nil
           [] OTHER -> InvalidPacket

\* The function HandlePacket calls first for a payload that passed the gate.
HandlePacketDispatch(payload) ==
    IF payload.typ \in {MessageTypeInitiation, MessageTypeResponse}
    THEN "CheckMAC1AndGetPublicKey"
    ELSE "ForwardPacketToReceiver"

\* SenderID(payload[4:8]) of a handshake packet.
SenderIDOf(payload) == payload.f4

\* The receiver index read at payload[4:8] whatever the type.
ReceiverIDAtSenderOffset(payload) == payload.f4

\* The receiver index read at payload[8:12] whatever the type.
ReceiverIDAtResponseOffset(payload) == payload.f8

\* ReceiverID(payload[8:12]) of a Response, ReceiverID(payload[4:8]) of types 3 and 4.
ReceiverIDOf(payload) ==
    IF payload.typ = MessageTypeResponse THEN payload.f8 ELSE payload.f4

\* The admitted keys whose Mac1Key authenticates the payload: the map scan of
\* CheckMAC1AndGetPublicKey returns the first one its iteration order meets.
CheckMAC1Matches(mac1KeyMap, payload) ==
    {publicKey \in DOMAIN mac1KeyMap :
        Blake2s128(mac1KeyMap[publicKey], payload) = payload.mac1}

\* &Peer{...}: the address of a freshly allocated record.
NewPeer(heap) == CHOOSE i \in 1..(Cardinality(DOMAIN heap) + 1) : i \notin DOMAIN heap

\* AddPeerByPublicKey listing the new endpoint under the authenticated key
\* instead of under its partner.
AddPeerUnderAuthenticatedKey(T, pairs, addr, senderID, receiverPublicKey, t) ==
    IF senderID \in DOMAIN T.R2P
    THEN [err |-> Nil, R2P |-> T.R2P, P2P |-> T.P2P, Heap |-> T.Heap]
    ELSE IF receiverPublicKey \notin DOMAIN pairs
    THEN [err |-> PeerNotFound, R2P |-> T.R2P, P2P |-> T.P2P, Heap |-> T.Heap]
    ELSE LET publicKey == pairs[receiverPublicKey]
             peer == NewPeer(T.Heap)
             heap == MapSet(T.Heap, peer, [Addr |-> addr, Timestamp |-> t])
             isEqual == {ab \in (DOMAIN heap) \X (DOMAIN heap) :
                            AddrString(heap[ab[1]].Addr) = AddrString(heap[ab[2]].Addr)}
         IN  [err |-> Nil,
              R2P |-> MapSet(T.R2P, senderID, peer),
              P2P |-> IF Len(publicKey) = 1
                      THEN AppendUniqueValue(T.P2P, receiverPublicKey, peer, isEqual)
                      ELSE T.P2P,
              Heap |-> heap]

\* AddPeerByPublicKey without the len(publicKey) == 1 test: the new endpoint is
\* listed under the first partner whatever their number.
AddPeerUnderFirstPartner(T, pairs, addr, senderID, receiverPublicKey, t) ==
    IF senderID \in DOMAIN T.R2P
    THEN [err |-> Nil, R2P |-> T.R2P, P2P |-> T.P2P, Heap |-> T.Heap]
    ELSE IF receiverPublicKey \notin DOMAIN pairs
    THEN [err |-> PeerNotFound, R2P |-> T.R2P, P2P |-> T.P2P, Heap |-> T.Heap]
    ELSE LET publicKey == pairs[receiverPublicKey]
             peer == NewPeer(T.Heap)
             heap == MapSet(T.Heap, peer, [Addr |-> addr, Timestamp |-> t])
             isEqual == {ab \in (DOMAIN heap) \X (DOMAIN heap) :
                            AddrString(heap[ab[1]].Addr) = AddrString(heap[ab[2]].Addr)}
         IN  [err |-> Nil,
              R2P |-> MapSet(T.R2P, senderID, peer),
              P2P |-> AppendUniqueValue(T.P2P, publicKey[1], peer, isEqual),
              Heap |-> heap]

\* AddPeerByPublicKey whose isEqual compares the Peer pointers.
AddPeerByPublicKeyPointerEqual(T, pairs, addr, senderID, receiverPublicKey, t) ==
    IF senderID \in DOMAIN T.R2P
    THEN [err |-> Nil, R2P |-> T.R2P, P2P |-> T.P2P, Heap |-> T.Heap]
    ELSE IF receiverPublicKey \notin DOMAIN pairs
    THEN [err |-> PeerNotFound, R2P |-> T.R2P, P2P |-> T.P2P, Heap |-> T.Heap]
    ELSE LET publicKey == pairs[receiverPublicKey]
             peer == NewPeer(T.Heap)
             heap == MapSet(T.Heap, peer, [Addr |-> addr, Timestamp |-> t])
             isEqual == {<< a, a >> : a \in DOMAIN heap}
         IN  [err |-> Nil,
              R2P |-> MapSet(T.R2P, senderID, peer),
              P2P |-> IF Len(publicKey) = 1
                      THEN AppendUniqueValue(T.P2P, publicKey[1], peer, isEqual)
                      ELSE T.P2P,
              Heap |-> heap]

\* AddPeerByPublicKey learning the source address of every Initiation: the record
\* of a bound sender index gets the new address.
AddPeerByPublicKeyRoaming(T, pairs, addr, senderID, receiverPublicKey, t) ==
    IF senderID \in DOMAIN T.R2P
    THEN [err |-> Nil, R2P |-> T.R2P, P2P |-> T.P2P,
          Heap |-> [T.Heap EXCEPT ![T.R2P[senderID]].Addr = addr]]
    ELSE IF receiverPublicKey \notin DOMAIN pairs
    THEN [err |-> PeerNotFound, R2P |-> T.R2P, P2P |-> T.P2P, Heap |-> T.Heap]
    ELSE LET publicKey == pairs[receiverPublicKey]
             peer == NewPeer(T.Heap)
             heap == MapSet(T.Heap, peer, [Addr |-> addr, Timestamp |-> t])
             isEqual == {ab \in (DOMAIN heap) \X (DOMAIN heap) :
                            AddrString(heap[ab[1]].Addr) = AddrString(heap[ab[2]].Addr)}
         IN  [err |-> Nil,
              R2P |-> MapSet(T.R2P, senderID, peer),
              P2P |-> IF Len(publicKey) = 1
                      THEN AppendUniqueValue(T.P2P, publicKey[1], peer, isEqual)
                      ELSE T.P2P,
              Heap |-> heap]

\* AddPeerByPublicKey listing a copy of the record it binds the sender index to.
AddPeerByPublicKeyCopying(T, pairs, addr, senderID, receiverPublicKey, t) ==
    IF senderID \in DOMAIN T.R2P
    THEN [err |-> Nil, R2P |-> T.R2P, P2P |-> T.P2P, Heap |-> T.Heap]
    ELSE IF receiverPublicKey \notin DOMAIN pairs
    THEN [err |-> PeerNotFound, R2P |-> T.R2P, P2P |-> T.P2P, Heap |-> T.Heap]
    ELSE LET publicKey == pairs[receiverPublicKey]
             peer == NewPeer(T.Heap)
             heap1 == MapSet(T.Heap, peer, [Addr |-> addr, Timestamp |-> t])
             copy == NewPeer(heap1)
             heap == MapSet(heap1, copy, [Addr |-> addr, Timestamp |-> t])
             isEqual == {ab \in (DOMAIN heap) \X (DOMAIN heap) :
                            AddrString(heap[ab[1]].Addr) = AddrString(heap[ab[2]].Addr)}
         IN  [err |-> Nil,
              R2P |-> MapSet(T.R2P, senderID, peer),
              P2P |-> IF Len(publicKey) = 1
                      THEN AppendUniqueValue(T.P2P, publicKey[1], copy, isEqual)
                      ELSE T.P2P,
              Heap |-> heap]

\* The table after AddPeerByPublicKey, and the error it returns.
AddPeerByPublicKey(T, pairs, addr, senderID, receiverPublicKey, t) ==
    IF senderID \in DOMAIN T.R2P
    THEN [err |-> Nil, R2P |-> MapSet(T.R2P, senderID, T.R2P[senderID]),
          P2P |-> T.P2P, Heap |-> T.Heap]
    ELSE IF receiverPublicKey \notin DOMAIN pairs
    THEN [err |-> PeerNotFound, R2P |-> T.R2P, P2P |-> T.P2P, Heap |-> T.Heap]
    ELSE LET publicKey == pairs[receiverPublicKey]
             peer == NewPeer(T.Heap)
             heap == MapSet(T.Heap, peer, [Addr |-> addr, Timestamp |-> t])
             isEqual == {ab \in (DOMAIN heap) \X (DOMAIN heap) :
                            AddrString(heap[ab[1]].Addr) = AddrString(heap[ab[2]].Addr)}
         IN  [err |-> Nil,
              R2P |-> MapSet(T.R2P, senderID, peer),
              P2P |-> IF Len(publicKey) = 1
                      THEN AppendUniqueValue(T.P2P, publicKey[1], peer, isEqual)
                      ELSE T.P2P,
              Heap |-> heap]

\* The table after AddPeerBySenderID (it always returns nil).
AddPeerBySenderIDRebinding(T, addr, senderID, t) ==
    LET peer == NewPeer(T.Heap)
    IN  [R2P |-> MapSet(T.R2P, senderID, peer),
         P2P |-> T.P2P,
         Heap |-> MapSet(T.Heap, peer, [Addr |-> addr, Timestamp |-> t])]

\* The table after AddPeerBySenderID.
AddPeerBySenderID(T, addr, senderID, t) ==
    IF senderID \in DOMAIN T.R2P
    THEN T
    ELSE LET peer == NewPeer(T.Heap)
         IN  [R2P |-> MapSet(T.R2P, senderID, peer),
              P2P |-> T.P2P,
              Heap |-> MapSet(T.Heap, peer, [Addr |-> addr, Timestamp |-> t])]

\* CleanupPeers whose first loop keeps the endpoints seen exactly expire ago.
CleanupPeersKeepingAtExpire(T, t, expire) ==
    LET Keep(peer) == t - T.Heap[peer].Timestamp <= expire
        remaining == [publicKey \in DOMAIN T.P2P |-> SelectSeq(T.P2P[publicKey], Keep)]
        kept == {publicKey \in DOMAIN T.P2P : Len(remaining[publicKey]) # 0}
        deleted == {receiverID \in DOMAIN T.R2P :
                       t - T.Heap[T.R2P[receiverID]].Timestamp >= expire}
    IN  [R2P |-> [receiverID \in (DOMAIN T.R2P) \ deleted |-> T.R2P[receiverID]],
         P2P |-> [publicKey \in kept |-> remaining[publicKey]],
         Heap |-> T.Heap]

\* CleanupPeers whose second loop deletes only what is older than expire.
CleanupPeersStrictlyOlder(T, t, expire) ==
    LET Keep(peer) == t - T.Heap[peer].Timestamp < expire
        remaining == [publicKey \in DOMAIN T.P2P |-> SelectSeq(T.P2P[publicKey], Keep)]
        kept == {publicKey \in DOMAIN T.P2P : Len(remaining[publicKey]) # 0}
        deleted == {receiverID \in DOMAIN T.R2P :
                       t - T.Heap[T.R2P[receiverID]].Timestamp > expire}
    IN  [R2P |-> [receiverID \in (DOMAIN T.R2P) \ deleted |-> T.R2P[receiverID]],
         P2P |-> [publicKey \in kept |-> remaining[publicKey]],
         Heap |-> T.Heap]

\* The table after the two loops of CleanupPeers, run at time t with expire > 0.
\* CleanupPeers without the delete of a key whose list has become empty.
CleanupPeersKeepingEmptyKeys(T, t, expire) ==
    LET Keep(peer) == t - T.Heap[peer].Timestamp < expire
        remaining == [publicKey \in DOMAIN T.P2P |-> SelectSeq(T.P2P[publicKey], Keep)]
        deleted == {receiverID \in DOMAIN T.R2P :
                       t - T.Heap[T.R2P[receiverID]].Timestamp >= expire}
    IN  [R2P |-> [receiverID \in (DOMAIN T.R2P) \ deleted |-> T.R2P[receiverID]],
         P2P |-> remaining,
         Heap |-> T.Heap]

CleanupPeers(T, t, expire) ==
    LET Keep(peer) == t - T.Heap[peer].Timestamp < expire
        remaining == [publicKey \in DOMAIN T.P2P |-> SelectSeq(T.P2P[publicKey], Keep)]
        kept == {publicKey \in DOMAIN T.P2P : Len(remaining[publicKey]) # 0}
        deleted == {receiverID \in DOMAIN T.R2P :
                       t - T.Heap[T.R2P[receiverID]].Timestamp >= expire}
    IN  [R2P |-> [receiverID \in (DOMAIN T.R2P) \ deleted |-> T.R2P[receiverID]],
         P2P |-> [publicKey \in kept |-> remaining[publicKey]],
         Heap |-> T.Heap]

\* A SendPacket that writes the buffer without its last byte.
SendPacketTruncated(to, payload, ok) ==
    [to |-> to, payload |-> [payload EXCEPT !.len = payload.len - 1], ok |-> ok]

\* The datagram SendPacket writes to the socket, and whether the write succeeded.
SendPacket(to, payload, ok) == [to |-> to, payload |-> payload, ok |-> ok]

\* ------------------------------------------------------------ the heap

\* The nil *Peer.
NilPeer == 0

\* No PacketJob: what a worker without a job and the receive loop between two
\* reads hold (a record, as a PacketJob is).
NoJob == [nil |-> TRUE]

\* publicKey: the key CheckMAC1AndGetPublicKey returned; exists: the lookup of the
\* sender index in AddPeerByPublicKey or AddPeerBySenderID; peers, idx: the slice
\* and the position of the loop of HandleType1Packet; target: peer of
\* ForwardPacketToReceiver.
IdleLocal == [publicKey |-> None, exists |-> FALSE, peers |-> << >>, idx |-> 0,
              target |-> NilPeer]

\* The records some pointer still refers to; the others are garbage.
Referenced(r2p, p2p, loc) ==
    {r2p[k] : k \in DOMAIN r2p}
    \cup UNION {SeqRange(p2p[k]) : k \in DOMAIN p2p}
    \cup UNION {SeqRange(loc[w].peers) : w \in Workers}
    \cup {loc[w].target : w \in Workers}

Collect(heap, r2p, p2p, loc) ==
    [peer \in (DOMAIN heap) \cap Referenced(r2p, p2p, loc) |-> heap[peer]]

Table == [R2P |-> ReceiverToPeerMap, P2P |-> PublicKeyToPeersMap, Heap |-> peerHeap]

\* The history variable of a sender index no Initiation was handled for since
\* the index was last unbound.  Otherwise: the source address of the last
\* Initiation handled for it, whether that Initiation found it unbound, and the
\* time it was handled at.
NoInitiation == [seen |-> FALSE, addr |-> [ip |-> "", port |-> 0], fresh |-> FALSE, at |-> 0]

\* The history of an Initiation from addr handled at time t: its binding (the
\* address, and whether it found the index unbound) or its time.
Initiation(history, addr, fresh, t) ==
    IF history = "binding"
    THEN [seen |-> TRUE, addr |-> addr, fresh |-> fresh, at |-> 0]
    ELSE [seen |-> TRUE, addr |-> NoInitiation.addr, fresh |-> FALSE, at |-> t]

\* The sweeper goroutine waits on its ticker and has not called CleanupPeers yet.
SweeperStarted == [pc |-> "ticker", calls |-> 0, err |-> None]

\* The WorkerPool NewWorkerPool returns, after Start has added its workers to wg.
\* configured remembers the argument NewWorkerPool was called with.
NewWorkerPool(maxWorkers) ==
    LET workers == IF maxWorkers < 1 THEN 1 ELSE maxWorkers
    IN  [jobQueue |-> << >>, cap |-> workers * 2, closed |-> FALSE,
         maxWorkers |-> workers, wg |-> workers, configured |-> maxWorkers]

\* The receive loop of main is at its select and has read no datagram.
\* submitted is what its last call of Submit returned ("true", "false"), if any.
ReceiveLoopStarted == [pc |-> "select", job |-> NoJob, submitted |-> None]

\* NewPeerManager has returned: its loop over publicKeyPairList is over.
Constructed == [publicKeyPairList |-> << >>, next |-> 1]

\* ------------------------------------------------------------------ Init

\* The goroutines that use the table: two workers and the sweeper.
LockWorkers == {"worker1", "worker2"}

SweeperGoroutine == "sweeper"

Goroutines == LockWorkers \cup {SweeperGoroutine}

\* The methods of PeerManager that a handler calls and that lock the mutex.
TableOps == {"CheckMAC1AndGetPublicKey", "AddPeerByPublicKey", "AddPeerBySenderID",
             "GetPublicKeyToPeers", "ForwardPacketToReceiver"}

\* NewBufferPool: an empty channel of capacity poolSize.  buffer: the array the
\* receive loop holds (0: none); puts: the Put calls of the current iteration;
\* outcome: how the last finished iteration ended.
NewBufferPool(poolSize) ==
    [pool |-> << >>, poolSize |-> poolSize, buffer |-> 0, puts |-> 0, outcome |-> None]

\* No goroutine is in a table operation.
LockingStarted == [g \in Goroutines |-> [pc |-> "idle", op |-> None]]

\* The state main has built when it enters its receive loop, from the configured
\* keypairs, peer_expiration, max_workers and pool_size.
Main(publicKeyPairList, expire, maxWorkers, poolSize) ==
    LET pm == NewPeerManager(publicKeyPairList)
    IN  /\ PublicKeyToMac1KeyMap = pm.Mac1
        /\ PublicKeyToPairPublicKeysMap = pm.Pairs
        /\ PublicKeyToPeersMap = EmptyMap
        /\ ReceiverToPeerMap = EmptyMap
        /\ peerHeap = EmptyMap
        /\ peerExpiration = expire
        /\ mutex = None
        /\ now = 0
        /\ ctxDone = FALSE
        /\ pc = [w \in Workers |-> "idle"]
        /\ job = [w \in Workers |-> NoJob]
        /\ local = [w \in Workers |-> IdleLocal]
        /\ result = [w \in Workers |-> None]
        /\ sent = [w \in Workers |-> << >>]
        /\ initiated = [s \in Sids |-> NoInitiation]
        /\ keypairs = Constructed
        /\ sweeper = SweeperStarted
        /\ wp = NewWorkerPool(maxWorkers)
        /\ recv = ReceiveLoopStarted
        /\ locking = LockingStarted
        /\ bp = NewBufferPool(poolSize)

\* The relay after main has built it, one worker per element of Workers.
Init ==
    \E publicKeyPairList \in PairLists, expire \in Expirations :
        Main(publicKeyPairList, expire, Cardinality(Workers), DefaultPoolSize)

\* --------------------------------------------------------------- actions

\* HandlePacket returns err to the worker.
Return(w, err, loc) ==
    /\ pc' = [pc EXCEPT ![w] = "returned"]
    /\ result' = [result EXCEPT ![w] = err]
    /\ local' = loc

Goto(w, label, loc) ==
    /\ pc' = [pc EXCEPT ![w] = label]
    /\ result' = result
    /\ local' = loc

\* The table variables after a step that left the table T and the locals loc.
SetTable(T, loc) ==
    /\ ReceiverToPeerMap' = T.R2P
    /\ PublicKeyToPeersMap' = T.P2P
    /\ peerHeap' = Collect(T.Heap, T.R2P, T.P2P, loc)

\* HandlePacket on packetJob, up to its first call.
HandlePacket(w, packetJob) ==
    /\ job' = [job EXCEPT ![w] = packetJob]
    /\ IF ctxDone
       THEN Return(w, Canceled, local)
       ELSE IF HandlePacketGate(packetJob.Data) # Nil
       THEN Return(w, HandlePacketGate(packetJob.Data), local)
       ELSE Goto(w, HandlePacketDispatch(packetJob.Data), local)

\* A worker takes one of the jobs and calls the handler on it.
DequeueFrom(w, jobs) ==
    /\ pc[w] = "idle"
    /\ \E packetJob \in jobs : HandlePacket(w, packetJob)
    /\ UNCHANGED << pool, sweeper, tables, admitted, peerExpiration, locking, bp, mutex, now, ctxDone, sent,
                    initiated >>

\* A worker takes a job, any datagram from any address, and calls the handler.
Dequeue(w) == DequeueFrom(w, PacketJobs)

\* CheckMAC1AndGetPublicKey recording the sender index before it verifies MAC1.
CheckMAC1AfterAddPeer(w) ==
    /\ pc[w] = "CheckMAC1AndGetPublicKey"
    /\ ctxDone \/ mutex = None
    /\ IF ctxDone
       THEN Return(w, Canceled, local) /\ UNCHANGED tables
       ELSE LET matches == CheckMAC1Matches(PublicKeyToMac1KeyMap, job[w].Data)
            IN  /\ SetTable(AddPeerBySenderID(Table, job[w].Addr, SenderIDOf(job[w].Data), now),
                            local)
                /\ IF matches = {}
                   THEN Return(w, AuthenticationFailed, local)
                   ELSE \E publicKey \in matches :
                           Goto(w, IF job[w].Data.typ = MessageTypeInitiation
                                   THEN "AddPeerByPublicKey" ELSE "AddPeerBySenderID",
                                [local EXCEPT ![w].publicKey = publicKey])
    /\ UNCHANGED << pool, sweeper, admitted, peerExpiration, locking, bp, mutex, now, ctxDone, job, sent, initiated >>

CheckMAC1AndGetPublicKey(w) ==
    /\ pc[w] = "CheckMAC1AndGetPublicKey"
    /\ ctxDone \/ mutex = None
    /\ IF ctxDone
       THEN Return(w, Canceled, local)
       ELSE LET matches == CheckMAC1Matches(PublicKeyToMac1KeyMap, job[w].Data)
            IN  IF matches = {}
                THEN Return(w, AuthenticationFailed, local)
                ELSE \E publicKey \in matches :
                        Goto(w, IF job[w].Data.typ = MessageTypeInitiation
                                THEN "AddPeerByPublicKey" ELSE "AddPeerBySenderID",
                             [local EXCEPT ![w].publicKey = publicKey])
    /\ UNCHANGED << pool, sweeper, tables, admitted, peerExpiration, locking, bp, mutex, now, ctxDone, job, sent, initiated >>

\* AddPeerByPublicKey as HandleType1Packet calls it.  history: what the history
\* variable keeps ("off", "binding" or "time").
AddPeerByPublicKeyStep(w, history) ==
    /\ pc[w] = "AddPeerByPublicKey"
    /\ ctxDone \/ mutex = None
    /\ IF ctxDone
       THEN /\ Return(w, Canceled, local)
            /\ UNCHANGED << tables, initiated >>
       ELSE LET senderID == SenderIDOf(job[w].Data)
                exists == senderID \in DOMAIN ReceiverToPeerMap
                loc == [local EXCEPT ![w].exists = exists]
                r == AddPeerByPublicKey(Table, PublicKeyToPairPublicKeysMap, job[w].Addr,
                                        senderID, local[w].publicKey, now)
            IN  IF r.err # Nil
                THEN /\ Return(w, r.err, loc)
                     /\ UNCHANGED << tables, initiated >>
                ELSE /\ Goto(w, "GetPublicKeyToPeers", loc)
                     /\ SetTable(r, loc)
                     /\ initiated' = IF history = "off"
                            THEN initiated
                            ELSE [initiated EXCEPT ![senderID] =
                                    Initiation(history, job[w].Addr, ~exists, now)]
    /\ UNCHANGED << pool, sweeper, admitted, peerExpiration, locking, bp, mutex, now, ctxDone, job, sent >>

GetPublicKeyToPeers(w) ==
    /\ pc[w] = "GetPublicKeyToPeers"
    /\ ctxDone \/ mutex = None
    /\ IF ctxDone
       THEN Return(w, Canceled, local)
       ELSE LET peers == MapGetSlice(PublicKeyToPeersMap, local[w].publicKey)
            IN  IF local[w].publicKey \in DOMAIN PublicKeyToPeersMap /\ Len(peers) > 0
                THEN Goto(w, "ForwardPacket", [local EXCEPT ![w].peers = peers, ![w].idx = 1])
                ELSE Return(w, Nil, local)
    /\ UNCHANGED << pool, sweeper, tables, admitted, peerExpiration, locking, bp, mutex, now, ctxDone, job, sent, initiated >>

\* One iteration of the loop of HandleType1Packet: ForwardPacket(peer.Addr).
ForwardPacket(w) ==
    /\ pc[w] = "ForwardPacket"
    /\ IF ctxDone
       THEN /\ Return(w, Canceled, local)
            /\ sent' = sent
       ELSE \E ok \in BOOLEAN :
            LET peer == local[w].peers[local[w].idx]
            IN  /\ sent' = [sent EXCEPT ![w] =
                              Append(@, SendPacket(peerHeap[peer].Addr, job[w].Data, ok))]
                /\ IF ~ok THEN Return(w, PacketSendFailed, local)
                   ELSE IF local[w].idx = Len(local[w].peers) THEN Return(w, Nil, local)
                   ELSE Goto(w, "ForwardPacket", [local EXCEPT ![w].idx = @ + 1])
    /\ UNCHANGED << pool, sweeper, tables, admitted, peerExpiration, locking, bp, mutex, now, ctxDone, job, initiated >>

\* AddPeerBySenderID as HandleType2Packet calls it.
AddPeerBySenderIDStep(w) ==
    /\ pc[w] = "AddPeerBySenderID"
    /\ ctxDone \/ mutex = None
    /\ IF ctxDone
       THEN /\ Return(w, Canceled, local)
            /\ UNCHANGED tables
       ELSE LET senderID == SenderIDOf(job[w].Data)
                loc == [local EXCEPT ![w].exists = senderID \in DOMAIN ReceiverToPeerMap]
            IN  /\ Goto(w, "ForwardPacketToReceiver", loc)
                /\ SetTable(AddPeerBySenderID(Table, job[w].Addr, senderID, now), loc)
    /\ UNCHANGED << pool, sweeper, admitted, peerExpiration, locking, bp, mutex, now, ctxDone, job, sent, initiated >>

\* ForwardPacketToReceiver up to its call of ForwardPacket: the mutex stays locked.
ForwardPacketToReceiver(w) ==
    /\ pc[w] = "ForwardPacketToReceiver"
    /\ ctxDone \/ mutex = None
    /\ LET receiverID == ReceiverIDOf(job[w].Data)
       IN  IF ctxDone
           THEN Return(w, Canceled, local) /\ mutex' = mutex
           ELSE IF receiverID \notin DOMAIN ReceiverToPeerMap
           THEN Return(w, PeerNotFound, local) /\ mutex' = mutex
           ELSE /\ Goto(w, "ForwardPacketLocked",
                        [local EXCEPT ![w].target = ReceiverToPeerMap[receiverID]])
                /\ mutex' = w
    /\ UNCHANGED << pool, sweeper, tables, admitted, peerExpiration, locking, bp, now, ctxDone, job, sent, initiated >>

\* ForwardPacket as ForwardPacketToReceiver calls it, then the deferred Unlock.
ForwardPacketLocked(w) ==
    /\ pc[w] = "ForwardPacketLocked"
    /\ mutex = w
    /\ mutex' = None
    /\ IF ctxDone
       THEN Return(w, Canceled, local) /\ sent' = sent
       ELSE \E ok \in BOOLEAN :
            /\ sent' = [sent EXCEPT ![w] =
                          Append(@, SendPacket(peerHeap[local[w].target].Addr, job[w].Data, ok))]
            /\ Return(w, IF ok THEN Nil ELSE PacketSendFailed, local)
    /\ UNCHANGED << pool, sweeper, tables, admitted, peerExpiration, locking, bp, now, ctxDone, job, initiated >>

\* The worker logs the error, if any, and goes back to its select.
Loop(w) ==
    /\ pc[w] = "returned"
    /\ pc' = [pc EXCEPT ![w] = "idle"]
    /\ job' = [job EXCEPT ![w] = NoJob]
    /\ result' = [result EXCEPT ![w] = None]
    /\ sent' = [sent EXCEPT ![w] = << >>]
    /\ local' = [local EXCEPT ![w] = IdleLocal]
    /\ peerHeap' = Collect(peerHeap, ReceiverToPeerMap, PublicKeyToPeersMap, local')
    /\ UNCHANGED << pool, sweeper, ReceiverToPeerMap, PublicKeyToPeersMap, admitted, peerExpiration, locking, bp,
                    mutex, now, ctxDone, initiated >>

\* A sweep whose CleanupPeers does not test expire <= 0.
SweepWithoutCheck(history) ==
    /\ mutex = None
    /\ history = "calls" => (sweeper.pc = "ticker" /\ sweeper.calls < MaxSweeps)
    /\ LET T == CleanupPeers(Table, now, peerExpiration)
       IN  /\ SetTable(T, local)
           /\ initiated' = IF history \in {"binding", "time"}
                  THEN [s \in Sids |-> IF s \in DOMAIN T.R2P THEN initiated[s]
                                        ELSE NoInitiation]
                  ELSE initiated
           /\ sweeper' = IF history = "calls"
                  THEN [pc |-> "ticker", calls |-> sweeper.calls + 1, err |-> Nil]
                  ELSE sweeper
    /\ UNCHANGED << pool, admitted, peerExpiration, locking, bp, mutex, now, ctxDone, workerVars >>

\* One tick of the sweeper goroutine: CleanupPeers.  history: what the history
\* variable keeps; "calls": the sweeper goroutine counts its CleanupPeers calls.
Sweep(history) ==
    /\ mutex = None
    /\ history = "calls" => (sweeper.pc = "ticker" /\ sweeper.calls < MaxSweeps)
    /\ IF peerExpiration <= 0
       THEN /\ UNCHANGED << tables, initiated >>
            /\ sweeper' = IF history = "calls"
                   THEN [pc |-> "logger.Error", calls |-> sweeper.calls + 1,
                         err |-> InvalidExpiration]
                   ELSE sweeper
       ELSE LET T == CleanupPeers(Table, now, peerExpiration)
            IN  /\ SetTable(T, local)
                /\ initiated' = IF history \in {"binding", "time"}
                       THEN [s \in Sids |-> IF s \in DOMAIN T.R2P THEN initiated[s]
                                             ELSE NoInitiation]
                       ELSE initiated
                /\ sweeper' = IF history = "calls"
                       THEN [pc |-> "ticker", calls |-> sweeper.calls + 1, err |-> Nil]
                       ELSE sweeper
    /\ UNCHANGED << pool, admitted, peerExpiration, locking, bp, mutex, now, ctxDone, workerVars >>

\* The sweeper goroutine logs the error of CleanupPeers and waits for the next tick.
LogError ==
    /\ sweeper.pc = "logger.Error"
    /\ sweeper' = [sweeper EXCEPT !.pc = "ticker"]
    /\ UNCHANGED << pool, tables, admitted, peerExpiration, locking, bp, mutex, now, ctxDone, workerVars,
                    initiated >>

\* Time passes.
Tick ==
    /\ now < MaxTime
    /\ now' = now + 1
    /\ UNCHANGED << pool, sweeper, tables, admitted, peerExpiration, locking, bp, mutex, ctxDone, workerVars, initiated >>

\* The steps of a handler after its first call, the table update excepted.
HandlerStep(w) ==
    \/ CheckMAC1AndGetPublicKey(w)
    \/ GetPublicKeyToPeers(w)
    \/ ForwardPacket(w)
    \/ AddPeerBySenderIDStep(w)
    \/ ForwardPacketToReceiver(w)
    \/ ForwardPacketLocked(w)
    \/ Loop(w)

\* The steps of the workers, any job taken.
WorkerStep(w) ==
    \/ Dequeue(w)
    \/ HandlerStep(w)

Next ==
    \/ \E w \in Workers : WorkerStep(w)
    \/ \E w \in Workers : AddPeerByPublicKeyStep(w, "off")
    \/ Sweep("off")
    \/ Tick

Spec == Init /\ [][Next]_vars

\* The same relay with the history variable kept, one configured pair.
InitHistory ==
    /\ Init
    /\ peerExpiration > 0
    /\ PublicKeyToPairPublicKeysMap = NewPeerManager(<< [PublicKey1 |-> "pkA", PublicKey2 |-> "pkB"] >>).Pairs

NextHistory ==
    \/ \E w \in Workers : WorkerStep(w)
    \/ \E w \in Workers : AddPeerByPublicKeyStep(w, "binding")
    \/ Sweep("binding")
    \/ Tick

SpecHistory == InitHistory /\ [][NextHistory]_vars

\* The same relay with the time of the last Initiation of every sender index kept.
NextExpiry ==
    \/ \E w \in Workers : WorkerStep(w)
    \/ \E w \in Workers : AddPeerByPublicKeyStep(w, "time")
    \/ Sweep("time")
    \/ Tick

SpecExpiry == InitHistory /\ [][NextExpiry]_vars

\* The relay with the calls of the sweeper goroutine counted.
NextSweeper ==
    \/ \E w \in Workers : DequeueFrom(w, TableJobs)
    \/ \E w \in Workers : HandlerStep(w)
    \/ \E w \in Workers : AddPeerByPublicKeyStep(w, "off")
    \/ Sweep("calls")
    \/ LogError
    \/ Tick

SpecSweeper == Init /\ [][NextSweeper]_vars

\* ---- the worker pool and the receive loop

\* The signal handler cancels the context.
Cancel ==
    /\ ~ctxDone
    /\ ctxDone' = TRUE
    /\ UNCHANGED << pool, sweeper, tables, admitted, peerExpiration, locking, bp, mutex, now, workerVars,
                    initiated >>

\* The select of the receive loop: the Shutdown branch when the context is done,
\* otherwise a datagram is read and copied (a read that fails or times out is a
\* step that changes nothing).
ReceiveLoop ==
    /\ recv.pc = "select"
    /\ IF ctxDone
       THEN recv' = [recv EXCEPT !.pc = "Shutdown"]
       ELSE \E packetJob \in PoolJobs : recv' = [recv EXCEPT !.pc = "Submit", !.job = packetJob]
    /\ UNCHANGED << wp, sweeper, tables, admitted, peerExpiration, locking, bp, mutex, now, ctxDone,
                    workerVars, initiated >>

\* A Submit that always sends to the channel.
SubmitAlways ==
    /\ recv.pc = "Submit"
    /\ wp' = [wp EXCEPT !.jobQueue = Append(@, recv.job)]
    /\ recv' = [pc |-> "select", job |-> NoJob, submitted |-> "true"]
    /\ UNCHANGED << sweeper, tables, admitted, peerExpiration, locking, bp, mutex, now, ctxDone, workerVars,
                    initiated >>

\* WorkerPool.Submit as the receive loop calls it: the select with a default.
Submit ==
    /\ recv.pc = "Submit"
    /\ IF Len(wp.jobQueue) < wp.cap
       THEN /\ wp' = [wp EXCEPT !.jobQueue = Append(@, recv.job)]
            /\ recv' = [pc |-> "select", job |-> NoJob, submitted |-> "true"]
       ELSE /\ wp' = wp
            /\ recv' = [pc |-> "select", job |-> NoJob, submitted |-> "false"]
    /\ UNCHANGED << sweeper, tables, admitted, peerExpiration, locking, bp, mutex, now, ctxDone, workerVars,
                    initiated >>

\* WorkerPool.Shutdown: close(wp.jobQueue).
ShutdownClose ==
    /\ recv.pc = "Shutdown"
    /\ wp' = [wp EXCEPT !.closed = TRUE]
    /\ recv' = [recv EXCEPT !.pc = "wg.Wait"]
    /\ UNCHANGED << sweeper, tables, admitted, peerExpiration, locking, bp, mutex, now, ctxDone, workerVars,
                    initiated >>

\* WorkerPool.Shutdown: wp.wg.Wait() returns, and main returns.
ShutdownWait ==
    /\ recv.pc = "wg.Wait"
    /\ wp.wg = 0
    /\ recv' = [recv EXCEPT !.pc = "returned"]
    /\ UNCHANGED << wp, sweeper, tables, admitted, peerExpiration, locking, bp, mutex, now, ctxDone,
                    workerVars, initiated >>

\* A worker that returns from its loop without wp.wg.Done().
WorkerExitWithoutDone(w) ==
    /\ pc' = [pc EXCEPT ![w] = "exited"]
    /\ wp' = wp
    /\ UNCHANGED << recv, sweeper, tables, admitted, peerExpiration, locking, bp, mutex, now,
                    ctxDone, job, local, result, sent, initiated >>

\* The worker returns from its loop; the deferred wp.wg.Done() runs.
WorkerExit(w) ==
    /\ pc' = [pc EXCEPT ![w] = "exited"]
    /\ wp' = [wp EXCEPT !.wg = @ - 1]
    /\ UNCHANGED << recv, sweeper, tables, admitted, peerExpiration, locking, bp, mutex, now, ctxDone, job,
                    local, result, sent, initiated >>

\* The select of a worker.  Go takes any of the cases that are ready: ctx.Done()
\* when the context is done, the receive when the queue holds a job or is closed.
WorkerSelect(w) ==
    /\ pc[w] = "idle"
    /\ \/ ctxDone /\ WorkerExit(w)
       \/ wp.jobQueue = << >> /\ wp.closed /\ WorkerExit(w)
       \/ /\ wp.jobQueue # << >>
          /\ HandlePacket(w, Head(wp.jobQueue))
          /\ wp' = [wp EXCEPT !.jobQueue = Tail(@)]
          /\ UNCHANGED << recv, sweeper, tables, admitted, peerExpiration, locking, bp, mutex, now, ctxDone,
                          sent, initiated >>

\* The relay with its receive loop, its job queue and its shutdown.
InitPool ==
    \E maxWorkers \in WorkerCounts :
        Main(<< [PublicKey1 |-> "pkA", PublicKey2 |-> "pkB"] >>, ExpirationTicks, maxWorkers,
             DefaultPoolSize)

NextPool ==
    \/ Cancel
    \/ ReceiveLoop
    \/ Submit
    \/ ShutdownClose
    \/ ShutdownWait
    \/ \E w \in Workers : WorkerSelect(w)
    \/ \E w \in Workers : HandlerStep(w)
    \/ \E w \in Workers : AddPeerByPublicKeyStep(w, "off")

SpecPool == InitPool /\ [][NextPool]_vars

\* The steps of the main goroutine, and of a worker goroutine, in NextPool.
MainStep == ReceiveLoop \/ Submit \/ ShutdownClose \/ ShutdownWait

PoolWorkerStep(w) == WorkerSelect(w) \/ HandlerStep(w) \/ AddPeerByPublicKeyStep(w, "off")

\* The relay of InitPool with one configured worker.
InitShutdown ==
    Main(<< [PublicKey1 |-> "pkA", PublicKey2 |-> "pkB"] >>, ExpirationTicks,
         Cardinality(Workers), DefaultPoolSize)

\* NextPool under fair scheduling: a goroutine that can take a step (the main
\* goroutine, whose read returns within its deadline; a worker that is not
\* waiting for a job or for the mutex) eventually takes one.  Every step of the
\* main goroutine changes recv.pc, every step of a worker changes pc or sent.
SpecShutdown ==
    /\ InitShutdown
    /\ [][NextPool]_vars
    /\ WF_<< recv.pc >>(MainStep)
    /\ \A w \in Workers : WF_<< pc, sent >>(PoolWorkerStep(w))

\* NewPeerManager before its loop: the maps are made, the keypairs list is given.
InitStartup ==
    \E list \in StartupLists, expire \in Expirations, poolSize \in {DefaultPoolSize} :
        /\ keypairs = [publicKeyPairList |-> list, next |-> 1]
        /\ PublicKeyToMac1KeyMap = EmptyMap
        /\ PublicKeyToPairPublicKeysMap = EmptyMap
        /\ PublicKeyToPeersMap = EmptyMap
        /\ ReceiverToPeerMap = EmptyMap
        /\ peerHeap = EmptyMap
        /\ peerExpiration = expire
        /\ mutex = None
        /\ now = 0
        /\ ctxDone = FALSE
        /\ pc = [w \in Workers |-> "idle"]
        /\ job = [w \in Workers |-> NoJob]
        /\ local = [w \in Workers |-> IdleLocal]
        /\ result = [w \in Workers |-> None]
        /\ sent = [w \in Workers |-> << >>]
        /\ initiated = [s \in Sids |-> NoInitiation]
        /\ sweeper = SweeperStarted
        /\ wp = NewWorkerPool(Cardinality(Workers))
        /\ recv = ReceiveLoopStarted
        /\ locking = LockingStarted
        /\ bp = NewBufferPool(poolSize)

\* One iteration of NewPeerManager's loop: AddPublicKeyPair on the next pair.
AddPublicKeyPairStep ==
    /\ keypairs.next <= Len(keypairs.publicKeyPairList)
    /\ LET publicKeyPair == keypairs.publicKeyPairList[keypairs.next]
           pm == AddPublicKeyPair([Mac1 |-> PublicKeyToMac1KeyMap,
                                   Pairs |-> PublicKeyToPairPublicKeysMap],
                                  publicKeyPair.PublicKey1, publicKeyPair.PublicKey2)
       IN  /\ PublicKeyToMac1KeyMap' = pm.Mac1
           /\ PublicKeyToPairPublicKeysMap' = pm.Pairs
    /\ keypairs' = [keypairs EXCEPT !.next = @ + 1]
    /\ UNCHANGED << pool, sweeper, tables, peerExpiration, locking, bp, mutex, now, ctxDone, workerVars, initiated >>

NextStartup == AddPublicKeyPairStep

SpecStartup == InitStartup /\ [][NextStartup]_vars

\* ---- the mutex of PeerManager, two workers and the sweeper

\* What no step of a table operation changes.
lockingFrame == << pool, sweeper, admitted, peerExpiration, bp, now, pc, job, local, result, sent,
                   initiated >>

SetLocking(g, label) == locking' = [locking EXCEPT ![g].pc = label]

\* A goroutine calls a table operation: a worker any method a handler calls, the
\* sweeper CleanupPeers, which has no context to test.
Call(g) ==
    /\ locking[g].pc = "idle"
    /\ \E op \in IF g = SweeperGoroutine THEN {"CleanupPeers"} ELSE TableOps :
          locking' = [locking EXCEPT ![g] =
                         [pc |-> IF op = "CleanupPeers" THEN "Lock" ELSE "ctx.Err", op |-> op]]
    /\ UNCHANGED << lockingFrame, tables, mutex, ctxDone >>

\* A method that goes from its context test to its body without pm.Lock().
CtxErrSkippingLock(g) ==
    /\ locking[g].pc = "ctx.Err"
    /\ IF ctxDone
       THEN locking' = [locking EXCEPT ![g] = [pc |-> "idle", op |-> None]]
       ELSE SetLocking(g, "locked")
    /\ UNCHANGED << lockingFrame, tables, mutex, ctxDone >>

\* The first statement of every method a handler calls: return ctx.Err() when the
\* context is done, before the mutex is touched.
CtxErr(g) ==
    /\ locking[g].pc = "ctx.Err"
    /\ IF ctxDone
       THEN locking' = [locking EXCEPT ![g] = [pc |-> "idle", op |-> None]]
       ELSE SetLocking(g, "Lock")
    /\ UNCHANGED << lockingFrame, tables, mutex, ctxDone >>

\* pm.Lock() returns once the mutex is free; defer pm.Unlock() is registered.
Lock(g) ==
    /\ locking[g].pc = "Lock"
    /\ mutex = None
    /\ mutex' = g
    /\ SetLocking(g, "locked")
    /\ UNCHANGED << lockingFrame, tables, ctxDone >>

\* The body of the table operation, on any arguments, up to its return (or, in
\* ForwardPacketToReceiver, up to the call of ForwardPacket).
Locked(g) ==
    /\ locking[g].pc = "locked"
    /\ LET op == locking[g].op
       IN  \/ /\ op \in {"CheckMAC1AndGetPublicKey", "GetPublicKeyToPeers"}
              /\ SetLocking(g, "Unlock")
              /\ UNCHANGED tables
           \/ /\ op = "AddPeerByPublicKey"
              /\ SetLocking(g, "Unlock")
              /\ \E addr \in Addrs, senderID \in Sids, publicKey \in DOMAIN PublicKeyToMac1KeyMap :
                    LET r == AddPeerByPublicKey(Table, PublicKeyToPairPublicKeysMap, addr,
                                                senderID, publicKey, now)
                    IN  IF r.err # Nil THEN UNCHANGED tables ELSE SetTable(r, local)
           \/ /\ op = "AddPeerBySenderID"
              /\ SetLocking(g, "Unlock")
              /\ \E addr \in Addrs, senderID \in Sids :
                    SetTable(AddPeerBySenderID(Table, addr, senderID, now), local)
           \/ /\ op = "ForwardPacketToReceiver"
              /\ \E receiverID \in Sids :
                    SetLocking(g, IF receiverID \in DOMAIN ReceiverToPeerMap
                                  THEN "ForwardPacket" ELSE "Unlock")
              /\ UNCHANGED tables
           \/ /\ op = "CleanupPeers"
              /\ SetLocking(g, "Unlock")
              /\ IF peerExpiration <= 0
                 THEN UNCHANGED tables
                 ELSE SetTable(CleanupPeers(Table, now, peerExpiration), local)
    /\ UNCHANGED << lockingFrame, mutex, ctxDone >>

\* ForwardPacket as ForwardPacketToReceiver calls it: the context test and
\* SendPacket; whatever it returns, ForwardPacketToReceiver returns it.
ForwardPacketCalled(g) ==
    /\ locking[g].pc = "ForwardPacket"
    /\ SetLocking(g, "Unlock")
    /\ UNCHANGED << lockingFrame, tables, mutex, ctxDone >>

\* The deferred pm.Unlock() runs and the method returns.
Unlock(g) ==
    /\ locking[g].pc = "Unlock"
    /\ mutex' = None
    /\ locking' = [locking EXCEPT ![g] = [pc |-> "idle", op |-> None]]
    /\ UNCHANGED << lockingFrame, tables, ctxDone >>

InitMutex ==
    \E expire \in Expirations :
        Main(<< [PublicKey1 |-> "pkA", PublicKey2 |-> "pkB"] >>, expire, Cardinality(LockWorkers),
             DefaultPoolSize)

NextMutex ==
    \/ Cancel
    \/ \E g \in Goroutines : Call(g)
    \/ \E g \in Goroutines : CtxErr(g)
    \/ \E g \in Goroutines : Lock(g)
    \/ \E g \in Goroutines : Locked(g)
    \/ \E g \in Goroutines : ForwardPacketCalled(g)
    \/ \E g \in Goroutines : Unlock(g)

SpecMutex == InitMutex /\ [][NextMutex]_vars

\* ---- the receive loop and the buffer pool

\* The arrays the pool holds or the receive loop has taken from it.
PoolArrays == SeqRange(bp.pool) \cup (IF bp.buffer = 0 THEN {} ELSE {bp.buffer})

\* The arrays of the Data slices of the job the receive loop is about to submit,
\* of the jobs in the queue, and of the jobs the workers are handling.
LoopArrays == IF recv.pc \in {"copy", "Submit"} THEN {recv.job.Data.array} ELSE {}

QueuedArrays == {wp.jobQueue[i].Data.array : i \in 1..Len(wp.jobQueue)}

InFlightArrays == {job[w].Data.array : w \in {v \in Workers : pc[v] \notin {"idle", "exited"}}}

LiveArrays == PoolArrays \cup LoopArrays \cup QueuedArrays \cup InFlightArrays

\* make([]byte, n): an array nothing refers to.
NewArray == CHOOSE i \in 1..(Cardinality(LiveArrays) + 1) : i \notin LiveArrays

\* The datagrams the receive loop reads where the buffers are looked at: the
\* Transport Data packets of PoolJobs, one too short, one for a receiver index.
ReceivedJobs == {packetJob \in PoolJobs : packetJob.Data.typ = MessageTypeTransport}

\* The packet job whose Data is a slice of the given array.
WithArray(packetJob, array) ==
    [Addr |-> packetJob.Addr,
     Data |-> [f \in (DOMAIN packetJob.Data) \cup {"array"} |->
                  IF f = "array" THEN array ELSE packetJob.Data[f]]]

\* BufferPool.Get: a buffer of the pool, or a new one when the pool is empty.
Get(b) ==
    IF b.pool # << >>
    THEN [b EXCEPT !.pool = Tail(@), !.buffer = Head(b.pool), !.puts = 0]
    ELSE [b EXCEPT !.buffer = NewArray, !.puts = 0]

\* BufferPool.Put of the buffer the loop holds: dropped when the pool is full.
Put(b) ==
    [b EXCEPT !.pool = IF Len(@) < b.poolSize THEN Append(@, b.buffer) ELSE @,
              !.buffer = 0,
              !.puts = @ + 1]

receiveFrame == << wp, sweeper, tables, admitted, peerExpiration, locking, mutex, now, ctxDone,
                   workerVars, initiated >>

\* The select of the receive loop: Shutdown when the context is done, otherwise
\* the default case starts with bufferPool.Get().
ReceiveSelect ==
    /\ recv.pc = "select"
    /\ IF ctxDone
       THEN recv' = [recv EXCEPT !.pc = "Shutdown"] /\ bp' = bp
       ELSE recv' = [recv EXCEPT !.pc = "SetReadDeadline"] /\ bp' = Get(bp)
    /\ UNCHANGED receiveFrame

\* conn.SetReadDeadline: on an error the buffer is put back and the loop continues.
SetReadDeadline ==
    /\ recv.pc = "SetReadDeadline"
    /\ \E ok \in BOOLEAN :
          IF ok
          THEN recv' = [recv EXCEPT !.pc = "ReadFromUDP"] /\ bp' = bp
          ELSE /\ recv' = [recv EXCEPT !.pc = "select"]
               /\ bp' = [Put(bp) EXCEPT !.outcome = "SetReadDeadline"]
    /\ UNCHANGED receiveFrame

\* conn.ReadFromUDP(buffer): a timeout or another error puts the buffer back and
\* continues; otherwise the datagram is in buffer[:n].
ReadFromUDP ==
    /\ recv.pc = "ReadFromUDP"
    /\ \/ \E err \in {"timeout", "error"} :
             /\ recv' = [recv EXCEPT !.pc = "select"]
             /\ bp' = [Put(bp) EXCEPT !.outcome = err]
       \/ \E packetJob \in ReceivedJobs :
             /\ recv' = [recv EXCEPT !.pc = "copy", !.job = WithArray(packetJob, bp.buffer)]
             /\ bp' = bp
    /\ UNCHANGED receiveFrame

\* A receive loop that submits buffer[:n] itself after putting the buffer back.
PutWithoutCopy ==
    /\ recv.pc = "copy"
    /\ recv' = [recv EXCEPT !.pc = "Submit"]
    /\ bp' = [Put(bp) EXCEPT !.outcome = "success"]
    /\ UNCHANGED receiveFrame

\* packetData := make([]byte, n); copy(packetData, buffer[:n]);
\* bufferPool.Put(buffer): the job to submit holds packetData.
CopyAndPut ==
    /\ recv.pc = "copy"
    /\ recv' = [recv EXCEPT !.pc = "Submit", !.job = WithArray(recv.job, NewArray)]
    /\ bp' = [Put(bp) EXCEPT !.outcome = "success"]
    /\ UNCHANGED receiveFrame

InitReceive ==
    \E poolSize \in PoolSizes :
        Main(<< [PublicKey1 |-> "pkA", PublicKey2 |-> "pkB"] >>, ExpirationTicks,
             Cardinality(Workers), poolSize)

NextReceive ==
    \/ Cancel
    \/ ReceiveSelect
    \/ SetReadDeadline
    \/ ReadFromUDP
    \/ CopyAndPut
    \/ Submit
    \/ ShutdownClose
    \/ ShutdownWait
    \/ \E w \in Workers : WorkerSelect(w)
    \/ \E w \in Workers : ForwardPacketToReceiver(w)
    \/ \E w \in Workers : Loop(w)

SpecReceive == InitReceive /\ [][NextReceive]_vars

\* ------------------------------------------------------------------ claims

\* The packets the gate of C1 rejects, as the claim lists them.
C1_Rejected(p) ==
    \/ p.len = 0
    \/ p.typ \notin {1, 2, 3, 4}
    \/ p.typ = 1 /\ p.len # 148
    \/ p.typ = 2 /\ p.len # 92
    \/ p.typ = 3 /\ p.len # 64
    \/ p.typ = 4 /\ p.len < 32

\* C1: HandlePacket returns InvalidPacket exactly for the payloads that are empty,
\* of a type other than 1..4, or of the wrong length for their type; every other
\* payload goes on to the MAC1 check (types 1, 2) or to forwarding (types 3, 4).
C1_TypeLengthGate ==
    [][\A w \in Workers :
         (pc[w] = "idle" /\ pc'[w] # "idle") =>
             LET p == job'[w].Data
             IN  IF C1_Rejected(p)
                 THEN pc'[w] = "returned" /\ result'[w] = InvalidPacket
                 ELSE /\ result'[w] = None
                      /\ pc'[w] = IF p.typ \in {1, 2} THEN "CheckMAC1AndGetPublicKey"
                                  ELSE "ForwardPacketToReceiver"]_vars

\* A Transport Data packet of 31 bytes was rejected as InvalidPacket.
C1_Witness ==
    \E w \in Workers :
        /\ pc[w] = "returned"
        /\ result[w] = InvalidPacket
        /\ job[w].Data.typ = 4
        /\ job[w].Data.len = 31

C2_Rejections == {InvalidPacket, AuthenticationFailed}

\* C2: a packet is rejected as InvalidPacket or AuthenticationFailed only by the
\* gate or by the MAC1 check, and no step of a handler up to and including the
\* MAC1 check changes any of the four mappings (or a Peer record) or sends.
C2_RejectedNoEffect ==
    [][\A w \in Workers :
         /\ (pc[w] \in {"idle", "CheckMAC1AndGetPublicKey"} /\ pc'[w] # pc[w]) =>
                /\ UNCHANGED << ReceiverToPeerMap, PublicKeyToPeersMap, PublicKeyToMac1KeyMap,
                                PublicKeyToPairPublicKeysMap, peerHeap >>
                /\ sent'[w] = << >>
         /\ (result'[w] \in C2_Rejections /\ result'[w] # result[w]) =>
                pc[w] \in {"idle", "CheckMAC1AndGetPublicKey"}]_vars

\* A packet failed the MAC1 check while both endpoint mappings held entries.
C2_Witness ==
    \E w \in Workers :
        /\ pc[w] = "returned"
        /\ result[w] = AuthenticationFailed
        /\ DOMAIN ReceiverToPeerMap # {}
        /\ DOMAIN PublicKeyToPeersMap # {}

\* ---- helpers of the claims about Initiations

\* The addresses, in their string form, of a list of Peer pointers.
C_Addresses(heap, peers) == {AddrString(heap[peers[i]].Addr) : i \in 1..Len(peers)}

\* Worker w takes the step that leaves the function named label.
C_Leaves(w, label) == pc[w] = label /\ pc'[w] # label

\* Worker w has returned from handling a packet of type typ.
C_Returned(w, typ) == pc[w] = "returned" /\ job[w].Data.typ = typ

\* C3: the handling of an authenticated Initiation makes one send to each endpoint
\* of the list GetPublicKeyToPeers returned for the authenticated key, whatever
\* the outcome of the other sends.
C3_BroadcastToEveryEndpoint ==
    \A w \in Workers :
        (C_Returned(w, 1) /\ result[w] \in {Nil, PacketSendFailed}) =>
            /\ Len(sent[w]) = Len(local[w].peers)
            /\ \A i \in 1..Len(local[w].peers) :
                   sent[w][i].to = peerHeap[local[w].peers[i]].Addr

\* The scenario of C4 for worker w: keys A and B are each other's only partner and
\* the Initiation w handles authenticated as B and found its sender index unbound.
C4_Scenario(w, A, B) ==
    /\ A # B
    /\ A \in DOMAIN PublicKeyToPairPublicKeysMap
    /\ B \in DOMAIN PublicKeyToPairPublicKeysMap
    /\ PublicKeyToPairPublicKeysMap[A] = << B >>
    /\ PublicKeyToPairPublicKeysMap[B] = << A >>
    /\ job[w].Data.typ = 1
    /\ local[w].publicKey = B

\* C4 as claimed: in the scenario, once the Initiation from the new address S is
\* handled without error, every other endpoint E of endpoints_by_pk[A] was sent
\* the packet.
C4_SentToEndpointsOfA ==
    \A w \in Workers : \A A \in PublicKeys, B \in PublicKeys :
        (/\ pc[w] = "returned"
         /\ result[w] = Nil
         /\ C4_Scenario(w, A, B)
         /\ ~local[w].exists
         /\ job[w].Data.f4 \in DOMAIN ReceiverToPeerMap
         /\ A \in DOMAIN PublicKeyToPeersMap
         /\ ReceiverToPeerMap[job[w].Data.f4] \in SeqRange(PublicKeyToPeersMap[A]))
        => \A i \in 1..Len(PublicKeyToPeersMap[A]) :
              LET E == peerHeap[PublicKeyToPeersMap[A][i]].Addr
              IN  AddrString(E) # AddrString(job[w].Addr)
                  => \E j \in 1..Len(sent[w]) : sent[w][j].to = E

\* C4 as amended: in the scenario the table update binds the sender index to a
\* record of address S and leaves S, and every endpoint listed before, in
\* endpoints_by_pk[A]; the list the packet is then sent to is endpoints_by_pk[B],
\* and every send goes to the next endpoint of that list.
C4_SentToEndpointsOfB ==
    [][\A w \in Workers : \A A \in PublicKeys, B \in PublicKeys :
         /\ (C_Leaves(w, "AddPeerByPublicKey") /\ C4_Scenario(w, A, B)
             /\ job[w].Data.f4 \notin DOMAIN ReceiverToPeerMap) =>
               LET pe == ReceiverToPeerMap'[job[w].Data.f4]
               IN  /\ peerHeap'[pe].Addr = job[w].Addr
                   /\ AddrString(job[w].Addr)
                          \in C_Addresses(peerHeap', MapGetSlice(PublicKeyToPeersMap', A))
                   /\ C_Addresses(peerHeap, MapGetSlice(PublicKeyToPeersMap, A))
                          \subseteq C_Addresses(peerHeap', MapGetSlice(PublicKeyToPeersMap', A))
         /\ (C_Leaves(w, "GetPublicKeyToPeers") /\ C4_Scenario(w, A, B)) =>
               /\ local'[w].peers = MapGetSlice(PublicKeyToPeersMap, B)
               /\ local'[w].peers = << >> => (pc'[w] = "returned" /\ sent'[w] = << >>)
         /\ (pc[w] = "ForwardPacket" /\ sent'[w] # sent[w] /\ C4_Scenario(w, A, B)) =>
               /\ Len(sent'[w]) = Len(sent[w]) + 1
               /\ Len(sent'[w]) <= Len(local[w].peers)
               /\ sent'[w][Len(sent'[w])].to = peerHeap[local[w].peers[Len(sent'[w])]].Addr]_vars

\* The Initiation of the scenario was handled with an endpoint E listed under A,
\* and nothing was sent: endpoints_by_pk[B] was empty.
C4_Witness ==
    \E w \in Workers : \E A \in PublicKeys, B \in PublicKeys :
        /\ pc[w] = "returned"
        /\ result[w] = Nil
        /\ C4_Scenario(w, A, B)
        /\ ~local[w].exists
        /\ job[w].Data.f4 \in DOMAIN ReceiverToPeerMap
        /\ A \in DOMAIN PublicKeyToPeersMap
        /\ ReceiverToPeerMap[job[w].Data.f4] \in SeqRange(PublicKeyToPeersMap[A])
        /\ Len(PublicKeyToPeersMap[A]) = 2
        /\ sent[w] = << >>

\* An endpoint with the address of record pe is listed under a partner of pk.
C5_Appears(r2p, p2p, heap, pe, partners) ==
    \E i \in 1..Len(partners) :
        AddrString(heap[pe].Addr) \in C_Addresses(heap, MapGetSlice(p2p, partners[i]))

\* Record pe itself is listed under a partner of pk.
C5_Listed(p2p, pe, partners) ==
    \E i \in 1..Len(partners) : pe \in SeqRange(MapGetSlice(p2p, partners[i]))

\* C5 as claimed: after the table update of an authenticated Initiation from pk
\* with sender index sid, whatever the table before, pe = endpoint_by_sid[sid]
\* appears in endpoints_by_pk[partner] iff pk has exactly one partner: with one
\* partner an endpoint of pe's address is listed, and pe is listed only then.
C5_ListedIffOnePartner ==
    [][\A w \in Workers :
         C_Leaves(w, "AddPeerByPublicKey") /\ pc'[w] = "GetPublicKeyToPeers" =>
             LET partners == PublicKeyToPairPublicKeysMap[local[w].publicKey]
                 pe == ReceiverToPeerMap'[job[w].Data.f4]
             IN  /\ Len(partners) = 1 =>
                        C5_Appears(ReceiverToPeerMap', PublicKeyToPeersMap', peerHeap', pe, partners)
                 /\ C5_Listed(PublicKeyToPeersMap', pe, partners) => Len(partners) = 1]_vars

\* C5 as amended: when sid was not bound before, pe is a new record for the source
\* address at the time of handling; with exactly one partner an endpoint with
\* pe's address is listed under the partner (pe itself, appended, unless one with
\* that address was listed already), with several partners endpoints_by_pk is
\* unchanged and pe is in no list.  When sid was bound before, nothing changes.
C5_ListedWhenNewAndOnePartner ==
    [][\A w \in Workers :
         C_Leaves(w, "AddPeerByPublicKey") /\ pc'[w] = "GetPublicKeyToPeers" =>
             LET sid == job[w].Data.f4
                 partners == PublicKeyToPairPublicKeysMap[local[w].publicKey]
                 pe == ReceiverToPeerMap'[sid]
                 old == MapGetSlice(PublicKeyToPeersMap, partners[1])
             IN  IF sid \in DOMAIN ReceiverToPeerMap
                 THEN UNCHANGED << ReceiverToPeerMap, PublicKeyToPeersMap, peerHeap >>
                 ELSE /\ pe \notin DOMAIN peerHeap
                      /\ peerHeap'[pe] = [Addr |-> job[w].Addr, Timestamp |-> now]
                      /\ IF Len(partners) = 1
                         THEN /\ C5_Appears(ReceiverToPeerMap', PublicKeyToPeersMap', peerHeap',
                                            pe, partners)
                              /\ PublicKeyToPeersMap' =
                                   IF AddrString(job[w].Addr) \in C_Addresses(peerHeap, old)
                                   THEN PublicKeyToPeersMap
                                   ELSE MapSet(PublicKeyToPeersMap, partners[1], Append(old, pe))
                         ELSE /\ PublicKeyToPeersMap' = PublicKeyToPeersMap
                              /\ \A k \in DOMAIN PublicKeyToPeersMap' :
                                     pe \notin SeqRange(PublicKeyToPeersMap'[k])]_vars

\* An Initiation from a key with exactly one partner was handled for a sender
\* index bound before, and its endpoint is not listed under the partner.
C5_Witness ==
    \E w \in Workers :
        /\ pc[w] = "GetPublicKeyToPeers"
        /\ local[w].exists
        /\ Len(PublicKeyToPairPublicKeysMap[local[w].publicKey]) = 1
        /\ job[w].Data.f4 \in DOMAIN ReceiverToPeerMap
        /\ ~C5_Appears(ReceiverToPeerMap, PublicKeyToPeersMap, peerHeap,
                       ReceiverToPeerMap[job[w].Data.f4],
                       PublicKeyToPairPublicKeysMap[local[w].publicKey])

\* ---- claims about Responses, Cookie Replies and Transport Data

\* Worker w takes a step of its handling of a packet of type typ.
C_Step(w, typ) == pc[w] # "idle" /\ pc'[w] # pc[w] /\ job[w].Data.typ = typ

\* C6 as claimed: a Response whose receiver index s had an Initiation from address
\* X handled, s not unbound since, is forwarded, and to X, whatever the table the
\* Initiation was handled in.
C6_ResponseSentToInitiator ==
    [][\A w \in Workers :
         C_Step(w, 2) /\ initiated[job[w].Data.f8].seen =>
             /\ pc[w] = "ForwardPacketToReceiver" => pc'[w] = "ForwardPacketLocked"
             /\ pc[w] = "ForwardPacketLocked" =>
                    /\ Len(sent'[w]) = 1
                    /\ sent'[w][1].to = initiated[job[w].Data.f8].addr]_vars

\* C6 as amended: the Response is forwarded, to the address s is bound to; that is
\* X provided s was not bound when the Initiation from X was handled.
C6_ResponseSentToFirstBinder ==
    [][\A w \in Workers :
         C_Step(w, 2) /\ initiated[job[w].Data.f8].seen =>
             /\ pc[w] = "ForwardPacketToReceiver" => pc'[w] = "ForwardPacketLocked"
             /\ pc[w] = "ForwardPacketLocked" =>
                    /\ Len(sent'[w]) = 1
                    /\ job[w].Data.f8 \in DOMAIN ReceiverToPeerMap
                    /\ sent'[w][1].to = peerHeap[ReceiverToPeerMap[job[w].Data.f8]].Addr
                    /\ initiated[job[w].Data.f8].fresh =>
                           sent'[w][1].to = initiated[job[w].Data.f8].addr]_vars

\* A Response from another address was sent to the address X of the Initiation
\* that bound its receiver index.
C6_Witness ==
    \E w \in Workers :
        /\ C_Returned(w, 2)
        /\ initiated[job[w].Data.f8].seen
        /\ initiated[job[w].Data.f8].fresh
        /\ Len(sent[w]) = 1
        /\ sent[w][1].to = initiated[job[w].Data.f8].addr
        /\ job[w].Addr # initiated[job[w].Data.f8].addr
        /\ job[w].Data.f4 # job[w].Data.f8

\* C7: the table update of an authenticated Response with sender index sid from
\* source S binds sid to a new record for S when sid is unbound and changes
\* nothing when it is bound; the receiver index lookup comes after it, so a
\* Response dropped with PeerNotFound has made the update; no step of the
\* handling of a Response changes endpoints_by_pk.
C7_ResponseTableEffect ==
    [][\A w \in Workers :
         /\ C_Step(w, 2) /\ pc[w] = "AddPeerBySenderID" =>
               LET sid == job[w].Data.f4
               IN  /\ pc'[w] = "ForwardPacketToReceiver"
                   /\ result'[w] = None
                   /\ IF sid \in DOMAIN ReceiverToPeerMap
                      THEN UNCHANGED << ReceiverToPeerMap, peerHeap >>
                      ELSE /\ DOMAIN ReceiverToPeerMap' = DOMAIN ReceiverToPeerMap \cup {sid}
                           /\ \A s \in DOMAIN ReceiverToPeerMap :
                                  ReceiverToPeerMap'[s] = ReceiverToPeerMap[s]
                           /\ ReceiverToPeerMap'[sid] \notin DOMAIN peerHeap
                           /\ peerHeap'[ReceiverToPeerMap'[sid]] =
                                  [Addr |-> job[w].Addr, Timestamp |-> now]
         /\ C_Step(w, 2) /\ pc[w] = "ForwardPacketToReceiver" =>
               UNCHANGED << ReceiverToPeerMap, peerHeap >>
         /\ C_Step(w, 2) /\ result'[w] = PeerNotFound =>
               pc[w] = "ForwardPacketToReceiver"
         /\ C_Step(w, 2) => UNCHANGED PublicKeyToPeersMap
         /\ (pc[w] = "idle" /\ pc'[w] # "idle" /\ job'[w].Data.typ = 2) => UNCHANGED tables]_vars

\* A Response was dropped with PeerNotFound and its sender index, unbound before,
\* is bound to its source address.
C7_Witness ==
    \E w \in Workers :
        /\ C_Returned(w, 2)
        /\ result[w] = PeerNotFound
        /\ ~local[w].exists
        /\ job[w].Data.f4 \in DOMAIN ReceiverToPeerMap
        /\ peerHeap[ReceiverToPeerMap[job[w].Data.f4]].Addr = job[w].Addr
        /\ job[w].Data.f8 \notin DOMAIN ReceiverToPeerMap

\* C8: a Cookie Reply or Transport Data packet past the length gate is sent once,
\* to the address endpoint_by_sid binds its receiver index (bytes 4..7) to, or is
\* dropped with PeerNotFound and no send when the index is unbound; its handling
\* changes neither map of the table.
C8_ForwardByReceiverIndex ==
    [][\A w \in Workers : \A typ \in {3, 4} :
         /\ (pc[w] = "idle" /\ pc'[w] = "ForwardPacketToReceiver" /\ job'[w].Data.typ = typ) =>
               /\ sent'[w] = << >>
               /\ UNCHANGED tables
         /\ C_Step(w, typ) /\ pc[w] = "ForwardPacketToReceiver" =>
               /\ IF job[w].Data.f4 \in DOMAIN ReceiverToPeerMap
                  THEN pc'[w] = "ForwardPacketLocked" /\ result'[w] = None
                  ELSE pc'[w] = "returned" /\ result'[w] = PeerNotFound
               /\ sent'[w] = << >>
               /\ UNCHANGED tables
         /\ C_Step(w, typ) /\ pc[w] = "ForwardPacketLocked" =>
               /\ job[w].Data.f4 \in DOMAIN ReceiverToPeerMap
               /\ Len(sent'[w]) = 1
               /\ sent'[w][1].to = peerHeap[ReceiverToPeerMap[job[w].Data.f4]].Addr
               /\ sent'[w][1].payload = job[w].Data
               /\ pc'[w] = "returned"
               /\ result'[w] \in {Nil, PacketSendFailed}
               /\ UNCHANGED tables
         /\ C_Step(w, typ) =>
               /\ pc[w] \in {"ForwardPacketToReceiver", "ForwardPacketLocked", "returned"}
               /\ UNCHANGED << ReceiverToPeerMap, PublicKeyToPeersMap >>]_vars

\* A Transport Data or Cookie Reply packet was sent once, to another address than
\* its source, with the table holding endpoints.
C8_Witness ==
    \E w \in Workers :
        /\ pc[w] = "returned"
        /\ job[w].Data.typ \in {3, 4}
        /\ result[w] = Nil
        /\ Len(sent[w]) = 1
        /\ sent[w][1].to # job[w].Addr
        /\ job[w].Data.f4 # job[w].Data.f8

\* C9: every datagram a worker has written is the payload of the packet it is
\* handling, no two of them went to the same address, and a failed write is the
\* last one of the handling, which returns PacketSendFailed.
C9_PayloadUnchangedNoRetry ==
    \A w \in Workers :
        IF pc[w] = "idle"
        THEN sent[w] = << >>
        ELSE /\ \A i \in 1..Len(sent[w]) : sent[w][i].payload = job[w].Data
             /\ \A i \in 1..Len(sent[w]) : \A j \in 1..Len(sent[w]) :
                    i # j => AddrString(sent[w][i].to) # AddrString(sent[w][j].to)
             /\ \A i \in 1..Len(sent[w]) :
                    ~sent[w][i].ok => /\ i = Len(sent[w])
                                      /\ pc[w] = "returned"
                                      /\ result[w] = PacketSendFailed
             /\ result[w] = PacketSendFailed =>
                    Len(sent[w]) > 0 /\ ~sent[w][Len(sent[w])].ok

\* An Initiation was broadcast: its first write succeeded, its second failed.
C9_Witness ==
    \E w \in Workers :
        /\ pc[w] = "returned"
        /\ result[w] = PacketSendFailed
        /\ Len(sent[w]) = 2
        /\ sent[w][1].ok
        /\ sent[w][1].payload = job[w].Data
        /\ sent[w][2].payload = job[w].Data

\* C10: the table update of an authenticated Initiation whose sender index is
\* bound sets the Timestamp of the bound record to the time of handling.
C10_LastSeenRefreshed ==
    [][\A w \in Workers :
         (C_Leaves(w, "AddPeerByPublicKey") /\ job[w].Data.f4 \in DOMAIN ReceiverToPeerMap) =>
             /\ job[w].Data.f4 \in DOMAIN ReceiverToPeerMap'
             /\ peerHeap'[ReceiverToPeerMap'[job[w].Data.f4]].Timestamp = now]_vars

\* ---- claims about the sweeper and the startup

\* C11: a sweep removes endpoint_by_sid[s] only if the last authenticated
\* Initiation with sender index s was handled at least peer_expiration before.
C11_EvictedOnlyAfterInactivity ==
    [][\A s \in Sids :
         (s \in DOMAIN ReceiverToPeerMap /\ s \notin DOMAIN ReceiverToPeerMap'
          /\ initiated[s].seen) =>
             now - initiated[s].at >= peerExpiration]_vars

\* C12: no step changes the address a bound sender index is bound to, and an
\* index gets bound only by the table update of an authenticated Initiation or
\* Response carrying it as sender index, to the source address of that packet.
C12_AddressBoundOnce ==
    [][\A s \in Sids :
         /\ (s \in DOMAIN ReceiverToPeerMap /\ s \in DOMAIN ReceiverToPeerMap') =>
                peerHeap'[ReceiverToPeerMap'[s]].Addr = peerHeap[ReceiverToPeerMap[s]].Addr
         /\ (s \notin DOMAIN ReceiverToPeerMap /\ s \in DOMAIN ReceiverToPeerMap') =>
                \E w \in Workers :
                    /\ pc[w] \in {"AddPeerByPublicKey", "AddPeerBySenderID"}
                    /\ pc'[w] # pc[w]
                    /\ job[w].Data.typ \in {1, 2}
                    /\ job[w].Data.f4 = s
                    /\ peerHeap'[ReceiverToPeerMap'[s]].Addr = job[w].Addr]_vars

\* An Initiation from another address than the one its sender index is bound to
\* was handled, and the index is still bound to the old address.
C12_Witness ==
    \E w \in Workers :
        /\ pc[w] = "GetPublicKeyToPeers"
        /\ job[w].Data.typ = 1
        /\ local[w].exists
        /\ job[w].Data.f4 \in DOMAIN ReceiverToPeerMap
        /\ peerHeap[ReceiverToPeerMap[job[w].Data.f4]].Addr # job[w].Addr

\* The number of occurrences of x in the list seq.
C13_Count(seq, x) == Cardinality({i \in 1..Len(seq) : seq[i] = x})

\* C13: for every pair (A,B) of the configured list NewPeerManager has added,
\* whatever the order and the repetitions in the list, partners_by_pk[A] holds B
\* exactly once, partners_by_pk[B] holds A exactly once, and both keys have a
\* MAC1 key.
C13_PartnersExactlyOnce ==
    \A i \in 1..(keypairs.next - 1) :
        LET A == keypairs.publicKeyPairList[i].PublicKey1
            B == keypairs.publicKeyPairList[i].PublicKey2
        IN  /\ A \in DOMAIN PublicKeyToPairPublicKeysMap
            /\ B \in DOMAIN PublicKeyToPairPublicKeysMap
            /\ C13_Count(PublicKeyToPairPublicKeysMap[A], B) = 1
            /\ C13_Count(PublicKeyToPairPublicKeysMap[B], A) = 1
            /\ A \in DOMAIN PublicKeyToMac1KeyMap
            /\ B \in DOMAIN PublicKeyToMac1KeyMap
            /\ PublicKeyToMac1KeyMap[A] = CalculateMac1Key(A)
            /\ PublicKeyToMac1KeyMap[B] = CalculateMac1Key(B)

\* NewPeerManager has finished a list that gives a pair three times, once with
\* its keys swapped, and the first key has a second partner.
C13_Witness ==
    /\ keypairs.next = 4
    /\ Len(keypairs.publicKeyPairList) = 3
    /\ keypairs.publicKeyPairList[1] = [PublicKey1 |-> "pkA", PublicKey2 |-> "pkB"]
    /\ keypairs.publicKeyPairList[2] = [PublicKey1 |-> "pkB", PublicKey2 |-> "pkA"]
    /\ keypairs.publicKeyPairList[3] = [PublicKey1 |-> "pkA", PublicKey2 |-> "pkB"]
    /\ PublicKeyToPairPublicKeysMap["pkA"] = << "pkB" >>

\* The endpoint p of the table before the step has expired at the time of the step.
C14_Expired(p) == now - peerHeap[p].Timestamp >= peerExpiration

\* The endpoint p of the table after the step has not expired.
C14_Live(p) == now - peerHeap'[p].Timestamp < peerExpiration

\* C14: a CleanupPeers call with peer_expiration > 0 returns no error, deletes
\* from endpoint_by_sid exactly the entries of expired endpoints, keeps in every
\* endpoints_by_pk list exactly the endpoints that have not expired, in order,
\* deletes the keys whose list got empty, and leaves no expired endpoint in
\* either mapping.
C14_SweepRemovesExactlyExpired ==
    [][(sweeper'.calls = sweeper.calls + 1 /\ peerExpiration > 0) =>
          LET Keep(p) == ~C14_Expired(p)
          IN  /\ sweeper'.err = Nil
              /\ DOMAIN ReceiverToPeerMap' =
                     {s \in DOMAIN ReceiverToPeerMap : ~C14_Expired(ReceiverToPeerMap[s])}
              /\ \A s \in DOMAIN ReceiverToPeerMap' :
                     /\ ReceiverToPeerMap'[s] = ReceiverToPeerMap[s]
                     /\ peerHeap'[ReceiverToPeerMap'[s]] = peerHeap[ReceiverToPeerMap[s]]
                     /\ C14_Live(ReceiverToPeerMap'[s])
              /\ DOMAIN PublicKeyToPeersMap' =
                     {k \in DOMAIN PublicKeyToPeersMap :
                         \E i \in 1..Len(PublicKeyToPeersMap[k]) :
                             ~C14_Expired(PublicKeyToPeersMap[k][i])}
              /\ \A k \in DOMAIN PublicKeyToPeersMap' :
                     /\ PublicKeyToPeersMap'[k] = SelectSeq(PublicKeyToPeersMap[k], Keep)
                     /\ \A i \in 1..Len(PublicKeyToPeersMap'[k]) :
                            /\ peerHeap'[PublicKeyToPeersMap'[k][i]] =
                                   peerHeap[PublicKeyToPeersMap'[k][i]]
                            /\ C14_Live(PublicKeyToPeersMap'[k][i])]_vars

\* CleanupPeers has run without error, the first endpoint ever created is gone
\* and a later one is still in both mappings.
C14_Witness ==
    /\ sweeper.calls >= 1
    /\ sweeper.err = Nil
    /\ 1 \notin DOMAIN peerHeap
    /\ 2 \in DOMAIN peerHeap
    /\ \E s \in DOMAIN ReceiverToPeerMap : ReceiverToPeerMap[s] = 2
    /\ \E k \in DOMAIN PublicKeyToPeersMap : 2 \in SeqRange(PublicKeyToPeersMap[k])

\* C15: a CleanupPeers call with peer_expiration <= 0 returns its error and
\* changes none of the four mappings; the sweeper goroutine logs the error, goes
\* back to its ticker, and can call CleanupPeers again.
C15_InvalidExpirationSkipsSweep ==
    [][/\ (sweeper'.calls = sweeper.calls + 1 /\ peerExpiration <= 0) =>
              /\ sweeper'.err = InvalidExpiration
              /\ sweeper'.pc = "logger.Error"
              /\ UNCHANGED << ReceiverToPeerMap, PublicKeyToPeersMap, PublicKeyToMac1KeyMap,
                              PublicKeyToPairPublicKeysMap, peerHeap >>
       /\ (sweeper.pc = "logger.Error" /\ sweeper' # sweeper) =>
              /\ sweeper' = [sweeper EXCEPT !.pc = "ticker"]
              /\ UNCHANGED << ReceiverToPeerMap, PublicKeyToPeersMap, PublicKeyToMac1KeyMap,
                              PublicKeyToPairPublicKeysMap, peerHeap >>
       /\ (sweeper.pc = "ticker" /\ sweeper.err = InvalidExpiration
           /\ sweeper.calls < MaxSweeps /\ mutex = None) =>
              ENABLED Sweep("calls")
       /\ sweeper'.pc \in {"ticker", "logger.Error"}]_vars

\* With peer_expiration <= 0 and endpoints in both mappings, CleanupPeers has
\* returned its error a second time.
C15_Witness ==
    /\ peerExpiration <= 0
    /\ sweeper.calls = 2
    /\ sweeper.err = InvalidExpiration
    /\ now >= 1
    /\ ReceiverToPeerMap # EmptyMap
    /\ PublicKeyToPeersMap # EmptyMap

\* ---- claims about the worker pool

\* C16: once Shutdown has closed the queue and every worker has exited, no job
\* is left in the queue: the jobs it held were dequeued and handed to the handler.
C16_QueueDrainedAtExit ==
    (wp.closed /\ \A w \in Workers : pc[w] = "exited") => wp.jobQueue = << >>

\* The queue capacity the claim gives for the configured worker count.
C17_Capacity == 2 * (IF wp.configured < 1 THEN 1 ELSE wp.configured)

\* C17: Submit returns at once: true with the job appended when the queue holds
\* fewer than 2 x worker_count jobs (a worker_count below 1 counting as 1), false
\* with the queue unchanged when it is full; no step makes the queue longer than
\* that.
C17_SubmitNeverBlocks ==
    [][/\ (recv.pc = "Submit" /\ recv' # recv) =>
              /\ recv'.pc = "select"
              /\ IF Len(wp.jobQueue) < C17_Capacity
                 THEN /\ recv'.submitted = "true"
                      /\ wp'.jobQueue = Append(wp.jobQueue, recv.job)
                 ELSE /\ recv'.submitted = "false"
                      /\ wp'.jobQueue = wp.jobQueue
       /\ recv.pc = "Submit" => ENABLED Submit
       /\ Len(wp.jobQueue) <= C17_Capacity
       /\ Len(wp'.jobQueue) <= C17_Capacity
       /\ wp.cap = C17_Capacity
       /\ \A n \in (-1)..MaxWorkerCount :
              NewWorkerPool(n).cap = 2 * (IF n < 1 THEN 1 ELSE n)]_vars

\* With a configured worker count below 1, Submit has returned false on a queue
\* of two jobs while the worker was handling a third.
C17_Witness ==
    /\ wp.configured < 1
    /\ recv.pc = "select"
    /\ recv.submitted = "false"
    /\ Len(wp.jobQueue) = 2
    /\ \E w \in Workers : pc[w] \notin {"idle", "exited", "returned"}

\* ---- claims about the invariants of the table

\* C18 as claimed: the endpoint of every entry of endpoint_by_sid, or one with its
\* address, is in some list of endpoints_by_pk.
C18_SidEndpointInSomeList ==
    \A s \in DOMAIN ReceiverToPeerMap :
        \E k \in DOMAIN PublicKeyToPeersMap :
            AddrString(peerHeap[ReceiverToPeerMap[s]].Addr)
                \in C_Addresses(peerHeap, PublicKeyToPeersMap[k])

\* C18 as amended: every endpoint of a list of endpoints_by_pk is the endpoint of
\* some entry of endpoint_by_sid.
C18_ListedEndpointBoundToSid ==
    \A k \in DOMAIN PublicKeyToPeersMap :
        \A i \in 1..Len(PublicKeyToPeersMap[k]) :
            \E s \in DOMAIN ReceiverToPeerMap :
                ReceiverToPeerMap[s] = PublicKeyToPeersMap[k][i]

\* A list holds an endpoint, bound to a sender index, and another sender index is
\* bound to an endpoint whose address is in no list.
C18_Witness ==
    /\ \E k \in DOMAIN PublicKeyToPeersMap :
           \E s \in DOMAIN ReceiverToPeerMap :
               ReceiverToPeerMap[s] \in SeqRange(PublicKeyToPeersMap[k])
    /\ \E s \in DOMAIN ReceiverToPeerMap :
           \A k \in DOMAIN PublicKeyToPeersMap :
               AddrString(peerHeap[ReceiverToPeerMap[s]].Addr)
                   \notin C_Addresses(peerHeap, PublicKeyToPeersMap[k])

\* C19: no two endpoints of one list of endpoints_by_pk have the same address.
C19_NoDuplicateAddressInList ==
    \A k \in DOMAIN PublicKeyToPeersMap :
        \A i \in 1..Len(PublicKeyToPeersMap[k]) : \A j \in 1..Len(PublicKeyToPeersMap[k]) :
            i # j => AddrString(peerHeap[PublicKeyToPeersMap[k][i]].Addr)
                         # AddrString(peerHeap[PublicKeyToPeersMap[k][j]].Addr)

\* An Initiation with an unbound sender index, of a key with one partner, came
\* from an address already in the partner's list: its endpoint was not appended.
C19_Witness ==
    \E w \in Workers :
        /\ pc[w] = "GetPublicKeyToPeers"
        /\ ~local[w].exists
        /\ Len(PublicKeyToPairPublicKeysMap[local[w].publicKey]) = 1
        /\ LET partner == PublicKeyToPairPublicKeysMap[local[w].publicKey][1]
           IN  /\ partner \in DOMAIN PublicKeyToPeersMap
               /\ ReceiverToPeerMap[job[w].Data.f4] \notin SeqRange(PublicKeyToPeersMap[partner])
               /\ AddrString(job[w].Addr) \in C_Addresses(peerHeap, PublicKeyToPeersMap[partner])

\* Every key of endpoints_by_pk, every key of partners_by_pk and every partner is
\* a key of mac1_key_by_pk, in the given maps.
C20_OnlyAdmittedKeys(p2p, pairs, mac1) ==
    /\ DOMAIN p2p \subseteq DOMAIN mac1
    /\ DOMAIN pairs \subseteq DOMAIN mac1
    /\ \A k \in DOMAIN pairs : SeqRange(pairs[k]) \subseteq DOMAIN mac1

\* C20: no step of the running relay (packet handling, sweep, clock) changes
\* mac1_key_by_pk or partners_by_pk, and before and after every step only
\* admitted keys appear in endpoints_by_pk and partners_by_pk.
C20_AdmittedKeysFixed ==
    [][/\ PublicKeyToMac1KeyMap' = PublicKeyToMac1KeyMap
       /\ PublicKeyToPairPublicKeysMap' = PublicKeyToPairPublicKeysMap
       /\ C20_OnlyAdmittedKeys(PublicKeyToPeersMap, PublicKeyToPairPublicKeysMap,
                               PublicKeyToMac1KeyMap)
       /\ C20_OnlyAdmittedKeys(PublicKeyToPeersMap', PublicKeyToPairPublicKeysMap',
                               PublicKeyToMac1KeyMap')]_vars

\* Packets were handled and a sweep has removed the first endpoint ever
\* created; a later endpoint is listed under an admitted key.
C20_Witness ==
    /\ 1 \notin DOMAIN peerHeap
    /\ \E k \in DOMAIN PublicKeyToPeersMap : 2 \in SeqRange(PublicKeyToPeersMap[k])
    /\ DOMAIN PublicKeyToPairPublicKeysMap # {}
    /\ now >= ExpirationTicks

\* C21: no worker holds the table mutex at a step that calls the Packet Sender:
\* whenever a handling appends a SendPacket call, the mutex is not held by the
\* worker that makes the call.
C21_MutexReleasedBeforeSend ==
    [][\A w \in Workers :
          Len(sent'[w]) > Len(sent[w]) => mutex # w]_vars

\* The goroutine is between pm.Lock() and the end of the body of its operation.
C22_InOperation(g) == locking[g].pc \in {"locked", "ForwardPacket"}

\* C22: a goroutine that is in the body of a table operation, or has its
\* deferred Unlock pending, holds the mutex; no two goroutines are in a table
\* operation at the same time; a goroutine that has returned, or that calls
\* pm.Lock(), does not hold the mutex.
C22_MutualExclusion ==
    /\ \A g \in Goroutines :
          /\ (C22_InOperation(g) \/ locking[g].pc = "Unlock") => mutex = g
          /\ locking[g].pc \in {"idle", "ctx.Err", "Lock"} => mutex # g
    /\ \A g \in Goroutines, h \in Goroutines :
          (C22_InOperation(g) /\ C22_InOperation(h)) => g = h

\* A worker is in the body of an update while the other worker and the sweeper
\* both wait in pm.Lock().
C22_Witness ==
    /\ locking["worker1"] = [pc |-> "locked", op |-> "AddPeerByPublicKey"]
    /\ locking["worker2"].pc = "Lock"
    /\ locking[SweeperGoroutine].pc = "Lock"
    /\ mutex = "worker1"
    /\ ReceiverToPeerMap # EmptyMap

\* The arrays of the job Submit is called with, of the queued jobs and of the
\* jobs being handled.
C23_JobArrays ==
    (IF recv.pc = "Submit" THEN {recv.job.Data.array} ELSE {})
        \cup QueuedArrays \cup InFlightArrays

\* C23: the buffer taken from the pool is put back exactly once in every
\* iteration of the receive loop, whichever way the iteration ends, and on
\* success before Submit; the Data of the job to submit, of every queued job and
\* of every job being handled is an array that is neither in the pool nor held
\* by the loop; the pool holds each buffer once and at most pool_size buffers.
C23_BufferPutBackOnce ==
    /\ bp.puts <= 1
    /\ recv.pc \in {"SetReadDeadline", "ReadFromUDP", "copy"} =>
           (bp.puts = 0 /\ bp.buffer # 0 /\ bp.buffer \notin SeqRange(bp.pool))
    /\ (recv.pc \notin {"SetReadDeadline", "ReadFromUDP", "copy"} /\ bp.outcome # None) =>
           (bp.puts = 1 /\ bp.buffer = 0)
    /\ recv.pc = "Submit" => (bp.outcome = "success" /\ bp.puts = 1 /\ bp.buffer = 0)
    /\ C23_JobArrays \cap PoolArrays = {}
    /\ Len(bp.pool) <= bp.poolSize
    /\ Cardinality(SeqRange(bp.pool)) = Len(bp.pool)

\* Submit is about to be called with a copy of the datagram, the buffer is back
\* in the pool, an earlier job is in the queue and another is being handled.
C23_Witness ==
    /\ recv.pc = "Submit"
    /\ bp.poolSize = 1
    /\ bp.pool # << >>
    /\ wp.jobQueue # << >>
    /\ InFlightArrays # {}

\* The step is an AddPeerByPublicKey that binds a sender index that was not
\* bound, for an authenticated key with exactly one partner.
C24_Created(w) ==
    /\ pc[w] = "AddPeerByPublicKey"
    /\ pc'[w] = "GetPublicKeyToPeers"
    /\ SenderIDOf(job[w].Data) \notin DOMAIN ReceiverToPeerMap
    /\ Len(PublicKeyToPairPublicKeysMap[local[w].publicKey]) = 1

\* C24 as stated: when an Initiation from address X creates endpoint_by_sid[s] and
\* the authenticated key has exactly one partner P, every entry of
\* endpoints_by_pk[P] with address X is the record endpoint_by_sid[s].
C24_ListEntryIsSidRecord ==
    [][\A w \in Workers :
          C24_Created(w) =>
             LET s == SenderIDOf(job[w].Data)
                 P == PublicKeyToPairPublicKeysMap[local[w].publicKey][1]
                 peers == MapGetSlice(PublicKeyToPeersMap', P)
             IN  \A i \in 1..Len(peers) :
                    AddrString(peerHeap'[peers[i]].Addr) = AddrString(job[w].Addr) =>
                        peers[i] = ReceiverToPeerMap'[s]]_vars

\* C24, amended: the record such an Initiation creates is appended to
\* endpoints_by_pk[P] unless that list already holds address X, in which case the
\* lists are left alone and the new record is in none; and a record that is in a
\* list and bound to a sender index stays in both, unchanged, or leaves both in
\* one step.
C24_SharedUnlessAddressListed ==
    [][/\ \A w \in Workers :
             C24_Created(w) =>
                LET s == SenderIDOf(job[w].Data)
                    P == PublicKeyToPairPublicKeysMap[local[w].publicKey][1]
                    peers == MapGetSlice(PublicKeyToPeersMap, P)
                IN  IF AddrString(job[w].Addr) \in C_Addresses(peerHeap, peers)
                    THEN /\ PublicKeyToPeersMap' = PublicKeyToPeersMap
                         /\ \A k \in DOMAIN PublicKeyToPeersMap' :
                               ReceiverToPeerMap'[s] \notin SeqRange(PublicKeyToPeersMap'[k])
                    ELSE MapGetSlice(PublicKeyToPeersMap', P)
                             = Append(peers, ReceiverToPeerMap'[s])
       /\ \A s \in DOMAIN ReceiverToPeerMap : \A P \in DOMAIN PublicKeyToPeersMap :
             ReceiverToPeerMap[s] \in SeqRange(PublicKeyToPeersMap[P]) =>
                \/ /\ s \in DOMAIN ReceiverToPeerMap'
                   /\ ReceiverToPeerMap'[s] = ReceiverToPeerMap[s]
                   /\ P \in DOMAIN PublicKeyToPeersMap'
                   /\ ReceiverToPeerMap[s] \in SeqRange(PublicKeyToPeersMap'[P])
                   /\ peerHeap'[ReceiverToPeerMap[s]] = peerHeap[ReceiverToPeerMap[s]]
                \/ /\ s \notin DOMAIN ReceiverToPeerMap'
                   /\ \A k \in DOMAIN PublicKeyToPeersMap' :
                         ReceiverToPeerMap[s] \notin SeqRange(PublicKeyToPeersMap'[k])]_vars

\* An Initiation has just bound a new sender index from an address that another
\* sender index had listed: the list holds the first record, shared with the
\* first index, and the new record is in no list.
C24_Witness ==
    \E w \in Workers : \E s1 \in DOMAIN ReceiverToPeerMap :
        /\ pc[w] = "GetPublicKeyToPeers"
        /\ ~local[w].exists
        /\ SenderIDOf(job[w].Data) # s1
        /\ SenderIDOf(job[w].Data) \in DOMAIN ReceiverToPeerMap
        /\ LET s2 == SenderIDOf(job[w].Data)
               P == PublicKeyToPairPublicKeysMap[local[w].publicKey]
           IN  /\ Len(P) = 1
               /\ P[1] \in DOMAIN PublicKeyToPeersMap
               /\ ReceiverToPeerMap[s1] \in SeqRange(PublicKeyToPeersMap[P[1]])
               /\ ReceiverToPeerMap[s2] # ReceiverToPeerMap[s1]
               /\ peerHeap[ReceiverToPeerMap[s2]].Addr = peerHeap[ReceiverToPeerMap[s1]].Addr
               /\ peerHeap[ReceiverToPeerMap[s2]].Timestamp
                      # peerHeap[ReceiverToPeerMap[s1]].Timestamp

\* The receive loop has seen the cancellation: it is in Shutdown or has returned.
C25_Stopped == recv.pc \in {"Shutdown", "wg.Wait", "returned"}

C26_Listed(p2p) == UNION {SeqRange(p2p[k]) : k \in DOMAIN p2p}

C26_Sids(r2p, peer) == {s \in DOMAIN r2p : r2p[s] = peer}

\* C26: before and after every step no key of endpoints_by_pk has an empty list
\* and every listed record is bound to a sender index; a step that lists a record
\* is the step that creates it and binds it; a step that removes a record from
\* the lists removes every sender index bound to it, and a step that unbinds the
\* sender indexes of a listed record removes it from the lists.
C26_ListedCreatedAndSweptWithSid ==
    [][/\ \A k \in DOMAIN PublicKeyToPeersMap : PublicKeyToPeersMap[k] # << >>
       /\ \A k \in DOMAIN PublicKeyToPeersMap' : PublicKeyToPeersMap'[k] # << >>
       /\ \A peer \in C26_Listed(PublicKeyToPeersMap) :
             /\ C26_Sids(ReceiverToPeerMap, peer) # {}
             /\ peer \in C26_Listed(PublicKeyToPeersMap')
                   <=> C26_Sids(ReceiverToPeerMap', peer) # {}
             /\ peer \in C26_Listed(PublicKeyToPeersMap') =>
                   C26_Sids(ReceiverToPeerMap', peer) = C26_Sids(ReceiverToPeerMap, peer)
       /\ \A peer \in C26_Listed(PublicKeyToPeersMap') \ C26_Listed(PublicKeyToPeersMap) :
             /\ peer \notin DOMAIN peerHeap
             /\ C26_Sids(ReceiverToPeerMap', peer) # {}]_vars

\* A list holds two records, bound to two sender indexes, and time has passed
\* since the first was listed.
C26_Witness ==
    \E k \in DOMAIN PublicKeyToPeersMap :
        /\ Len(PublicKeyToPeersMap[k]) = 2
        /\ C26_Sids(ReceiverToPeerMap, PublicKeyToPeersMap[k][1])
               # C26_Sids(ReceiverToPeerMap, PublicKeyToPeersMap[k][2])
        /\ peerHeap[PublicKeyToPeersMap[k][1]].Timestamp
               < peerHeap[PublicKeyToPeersMap[k][2]].Timestamp

====
